---- MODULE Spec2Model ----
(***************************************************************************)
(* A model of the statistics core of chicago-dig-bot:                      *)
(* src/src/analytics/stats.py, class StatsGenerator.                       *)
(*                                                                         *)
(* Python strings are TLA+ strings; Len, \o and SubSeq act on them as on   *)
(* sequences of characters.  A list of strings is a sequence of strings.   *)
(***************************************************************************)
EXTENDS Integers, Sequences, FiniteSets, TLC

VARIABLES
    pc,          \* position of the running script: which call returned last
    raw,         \* the raw contractor name first handed to _normalize_name
    origin,      \* index in NAME_MAPPINGS of the key raw is a variant of, or 0
    name,        \* argument of the latest _normalize_name call
    out,         \* return value of the latest _normalize_name call
    calls,       \* number of _normalize_name calls made on this name so far
    record,      \* argument of _parse_record: [type, value]
    encoded,     \* the pieces the record string was put together from
    parsed,      \* outcome of _parse_record: [raised, value]
    permits,     \* yesterday's rows of the Parquet snapshot: contact -> rows
    limit,       \* argument of get_contractor_leaderboard
    received,    \* rows of the query result, in the order received
    leaderboard, \* outcome of get_contractor_leaderboard: [raised, type, items]
    post,        \* outcome of the caller's read of leaderboard['overall']
    daily,       \* the Parquet snapshot by date: date -> daily counts or NoRow
    window,      \* rolling_window_days of the configuration
    history,     \* result rows of historical_counts, by date
    target,      \* result row of daily_counts for the target date
    comparison,  \* outcome of get_day_of_week_comparison: [raised, value]
    daily_stats, \* outcome of generate_daily_stats: [raised, value]
    settings,    \* the configuration as loaded from config.yaml
    db_opens,    \* whether duckdb.connect succeeds
    generator,   \* outcome of StatsGenerator(): [raised, missing]
    rolling,     \* rolling_window_days as read by an aggregation
    permit_rows, \* dig_ticket_number of the rows of the permits table
    snapshot,    \* dig_ticket_number of the rows of the Parquet file
    batch,       \* the DataFrame of the latest process_and_store call
    stored,      \* outcome of that call: [raised, total_records, inserts, updates]
    stores,      \* number of process_and_store calls so far
    attempt,     \* attempt of the retry wrapper around run_pipeline, from 0
    test_mode,   \* config.test_mode
    yesterday_counts, \* daily counts of yesterday in the snapshot, or NoRow
    records_fetched,  \* len(data) of this attempt
    storage_stats,    \* what process_and_store returned in this attempt
    pipeline_status,  \* the flags of pipeline_status
    permit_stats,     \* permit_stats of this attempt: [made, emergency_percent]
    heatmap,     \* whether this attempt created the emergency heatmap
    thread,      \* outcome of the post_daily_thread call of this attempt
    error,       \* the exception this attempt raised, or ""
    max_attempts,    \* error_config['retry']['max_attempts']
    delay_seconds,   \* error_config['retry']['delay_seconds']
    exponential,     \* error_config['retry']['exponential_backoff']
    func_calls,  \* number of calls of the wrapped function so far
    sleeps,      \* the delays slept so far, in order
    returned,    \* how the wrapper ended: "result", "None", "exception", or ""
    posts,       \* the list given to post_thread
    published,   \* the records the service created, in order
    position,    \* index of the next post of the list
    root_ref,    \* root_ref of post_thread: index of the post referred to
    parent_ref,  \* parent_ref of post_thread
    thread_error \* what made post_thread raise, or ""

normVars == <<raw, origin, name, out, calls>>
parseVars == <<record, encoded, parsed>>
boardVars == <<permits, limit, received, leaderboard, post>>
dayVars == <<daily, window, history, target, comparison, daily_stats>>
cfgVars == <<settings, db_opens, generator, rolling>>
storeVars == <<permit_rows, snapshot, batch, stored, stores>>
pipeVars ==
    <<attempt, test_mode, yesterday_counts, records_fetched, storage_stats,
      pipeline_status, permit_stats, heatmap, thread, error>>
retryVars ==
    <<max_attempts, delay_seconds, exponential, func_calls, sleeps, returned>>
threadVars ==
    <<posts, published, position, root_ref, parent_ref, thread_error>>
restVars == <<cfgVars, storeVars, pipeVars, retryVars, threadVars>>
vars == <<pc, normVars, parseVars, boardVars, dayVars, restVars>>

----------------------------------------------------------------------------
(* Characters and the str methods the code uses.                           *)

LowerLetters == "abcdefghijklmnopqrstuvwxyz"
UpperLetters == "ABCDEFGHIJKLMNOPQRSTUVWXYZ"
Digits == "0123456789"

CharAt(s, i) == SubSeq(s, i, i)
CharsOf(s) == {CharAt(s, i) : i \in 1..Len(s)}
Take(s, n) == SubSeq(s, 1, n)
Drop(s, n) == SubSeq(s, n + 1, Len(s))

LowerSet == CharsOf(LowerLetters)
UpperSet == CharsOf(UpperLetters)
DigitSet == CharsOf(Digits)
\* The characters \s matches, among those the model's inputs hold.
SpaceSet == {" ", "\t"}

ToUpper == [c \in LowerSet |->
              CharAt(UpperLetters, CHOOSE i \in 1..Len(LowerLetters) : CharAt(LowerLetters, i) = c)]
ToLower == [c \in UpperSet |->
              CharAt(LowerLetters, CHOOSE i \in 1..Len(UpperLetters) : CharAt(UpperLetters, i) = c)]

UpperChar(c) == IF c \in LowerSet THEN ToUpper[c] ELSE c
LowerChar(c) == IF c \in UpperSet THEN ToLower[c] ELSE c

\* str.upper()
RECURSIVE upper(_)
upper(s) == IF s = "" THEN "" ELSE UpperChar(CharAt(s, 1)) \o upper(Drop(s, 1))

\* str.lower()
RECURSIVE lower(_)
lower(s) == IF s = "" THEN "" ELSE LowerChar(CharAt(s, 1)) \o lower(Drop(s, 1))

\* str.capitalize(): first character upper-cased, the rest lower-cased
capitalize(s) == IF s = "" THEN "" ELSE UpperChar(CharAt(s, 1)) \o lower(Drop(s, 1))

\* str.isupper(): at least one cased character and no lower-case one
isupper(s) == /\ \E i \in 1..Len(s) : CharAt(s, i) \in UpperSet
              /\ \A i \in 1..Len(s) : CharAt(s, i) \notin LowerSet

\* s[i:].startswith(p), 1-based i
StartsWithAt(s, i, p) == /\ i + Len(p) - 1 <= Len(s)
                         /\ SubSeq(s, i, i + Len(p) - 1) = p

startswith(s, p) == StartsWithAt(s, 1, p)

\* str.replace(old, new) for a non-empty old: leftmost, non-overlapping
RECURSIVE replace(_, _, _)
replace(s, old, new) ==
    IF Len(s) < Len(old) THEN s
    ELSE IF Take(s, Len(old)) = old
         THEN new \o replace(Drop(s, Len(old)), old, new)
         ELSE CharAt(s, 1) \o replace(Drop(s, 1), old, new)

\* str.lstrip(), str.rstrip(), str.strip()
RECURSIVE lstrip(_)
lstrip(s) == IF s # "" /\ CharAt(s, 1) \in SpaceSet THEN lstrip(Drop(s, 1)) ELSE s

RECURSIVE rstrip(_)
rstrip(s) == IF s # "" /\ CharAt(s, Len(s)) \in SpaceSet THEN rstrip(Take(s, Len(s) - 1)) ELSE s

strip(s) == rstrip(lstrip(s))

\* Length of the longest run of characters of set cs that starts s
RECURSIVE RunLen(_, _)
RunLen(s, cs) == IF s # "" /\ CharAt(s, 1) \in cs THEN 1 + RunLen(Drop(s, 1), cs) ELSE 0

\* Length of the longest run of characters outside set cs that starts s
RECURSIVE RunLenNot(_, _)
RunLenNot(s, cs) == IF s # "" /\ CharAt(s, 1) \notin cs THEN 1 + RunLenNot(Drop(s, 1), cs) ELSE 0

\* str.split(): the whitespace-delimited tokens, none of them empty
RECURSIVE split(_)
split(s) ==
    LET t == lstrip(s)
        n == RunLenNot(t, SpaceSet)
    IN  IF t = "" THEN <<>> ELSE <<Take(t, n)>> \o split(Drop(t, n))

\* str.split(sep) for a one-character sep: empty parts are kept
RECURSIVE split_on(_, _)
split_on(s, sep) ==
    LET n == RunLenNot(s, {sep})
    IN  IF n = Len(s) THEN <<s>> ELSE <<Take(s, n)>> \o split_on(Drop(s, n + 1), sep)

\* sep.join(words)
RECURSIVE join(_, _)
join(sep, words) ==
    IF words = <<>> THEN ""
    ELSE IF Len(words) = 1 THEN words[1]
         ELSE words[1] \o sep \o join(sep, Tail(words))

\* re.sub(r'<one of cs>+', rep, s): every maximal run of cs becomes rep
RECURSIVE sub_runs(_, _, _)
sub_runs(s, cs, rep) ==
    IF s = "" THEN ""
    ELSE IF CharAt(s, 1) \in cs
         THEN rep \o sub_runs(Drop(s, RunLen(s, cs)), cs, rep)
         ELSE CharAt(s, 1) \o sub_runs(Drop(s, 1), cs, rep)

\* re.sub(r'\*+$', '', s): the trailing run of asterisks is dropped
RECURSIVE sub_trailing_stars(_)
sub_trailing_stars(s) ==
    IF s # "" /\ CharAt(s, Len(s)) = "*" THEN sub_trailing_stars(Take(s, Len(s) - 1)) ELSE s

----------------------------------------------------------------------------
(* The tables of StatsGenerator.                                           *)

\* A business-suffix regex (?:,\s+)?CORE\.?$ is held as its alternatives for
\* CORE and its replacement, in the dict's order.
BUSINESS_SUFFIXES == <<
    [cores |-> {"INC", "INCORPORATED"}, replacement |-> "Inc"],
    [cores |-> {"LLC"}, replacement |-> "LLC"],
    [cores |-> {"CO", "COMPANY"}, replacement |-> "Co"],
    [cores |-> {"CORP", "CORPORATION"}, replacement |-> "Corp"],
    [cores |-> {"LTD"}, replacement |-> "Ltd"] >>

\* A word regex TEXT or TEXT\.? is held as its text and whether the dot may follow.
WORD_REPLACEMENTS == <<
    [text |-> "CONSTRUCTION", dot |-> FALSE, replacement |-> "Construction"],
    [text |-> "NSTRUCTION", dot |-> FALSE, replacement |-> "Construction"],
    [text |-> "CONSTR", dot |-> TRUE, replacement |-> "Construction"],
    [text |-> "CONST", dot |-> TRUE, replacement |-> "Construction"],
    [text |-> "PLBG", dot |-> TRUE, replacement |-> "Plumbing"],
    [text |-> "HTG", dot |-> TRUE, replacement |-> "Heating"],
    [text |-> "EXCAV", dot |-> TRUE, replacement |-> "Excavating"],
    [text |-> "CONCRETE", dot |-> FALSE, replacement |-> "Concrete"],
    [text |-> "NCRETE", dot |-> FALSE, replacement |-> "Concrete"] >>

\* The alias table, in the dict's order: <<key, canonical value>>.
NAME_MAPPINGS == <<
    <<"PEOPLES GAS", "Peoples Gas">>,
    <<"PEOPLE GAS", "Peoples Gas">>,
    <<"PEOPLES GAS LIGHT & COKE", "Peoples Gas">>,
    <<"INTEGRYS ENERGY GROUP / PEOPLES GAS", "Peoples Gas">>,
    <<"INTEGRYS ENERGY GROUP/PEOPLE GAS", "Peoples Gas">>,
    <<"COMED NORTH", "ComEd">>,
    <<"COMED", "ComEd">>,
    <<"COM ED", "ComEd">>,
    <<"COM-ED", "ComEd">>,
    <<"DWM", "Department of Water Management">>,
    <<"CITY OF CHICAGO DEPT OF WATER", "Department of Water Management">>,
    <<"CITY OF CHICAGO WATER DEPARTMENT", "Department of Water Management">>,
    <<"CITY OF CHICAGO (DEPT OF WATER MANAGEMENT)", "Department of Water Management">>,
    <<"CITY OF CHICAGO WATER DEPT", "Department of Water Management">>,
    <<"CHICAGO DEPT WATER MANAGEMENT", "Department of Water Management">>,
    <<"DEPT OF WATER MANAGEMENT", "Department of Water Management">>,
    <<"CDOT - IN HOUSE CONSTRUCTION", "CDOT - In-House Construction">>,
    <<"CDOT - IN-HOUSE CONSTRUCTION", "CDOT - In-House Construction">>,
    <<"CDOT - INHOUSECONSTRUCTION", "CDOT - In-House Construction">>,
    <<"CDOT-IN HOUSE CONSTRUCTION", "CDOT - In-House Construction">>,
    <<"CDOT-INHOUSECONSTRUCTION", "CDOT - In-House Construction">>,
    <<"CDOT-SIGN MANAGEMENT", "CDOT - Sign Management">>,
    <<"CDOT - SIGN MANAGEMENT", "CDOT - Sign Management">>,
    <<"SEVEN-D CONSTRUCTION", "Seven-D Construction">>,
    <<"SEVEN D CONSTRUCTION", "Seven-D Construction">>,
    <<"M & J ASPHALT", "M&J Asphalt">>,
    <<"M&J ASPHALT", "M&J Asphalt">>,
    <<"G & V CONST", "G&V Construction">>,
    <<"G&V CONST", "G&V Construction">>,
    <<"RELIABLE CONTRACTING & EQUIPMENT", "Reliable Contracting & Equipment">>,
    <<"RELIABLECONTRACTING&EQUIPMENT", "Reliable Contracting & Equipment">>,
    <<"RELIABLE CONTRACTING AND EQUIPMENT", "Reliable Contracting & Equipment">>,
    <<"MILLER PIPELINE", "Miller Pipeline">> >>

WORD_CAPITALIZATIONS ==
    ("OF" :> "of") @@ ("AND" :> "and") @@ ("THE" :> "the") @@ ("IN" :> "in") @@
    ("AT" :> "at") @@ ("BY" :> "by") @@ ("FOR" :> "for") @@ ("WITH" :> "with") @@
    ("LLC" :> "LLC") @@ ("INC" :> "Inc") @@ ("CO" :> "Co") @@ ("DEPT" :> "Dept") @@
    ("DBA" :> "dba")

\* A parenthetical regex is a literal text, or \(SL-\d+\).
PRESERVE_SUFFIXES == <<
    [kind |-> "sl_digits", text |-> "(SL-"],
    [kind |-> "lit", text |-> "(SL)"],
    [kind |-> "lit", text |-> "(SEAL)"],
    [kind |-> "lit", text |-> "(OVERSIZE)"] >>

REMOVE_SUFFIXES == <<
    [kind |-> "lit", text |-> "(HOMEOWNER)"],
    [kind |-> "lit", text |-> "(CONSTRUCTION)"],
    [kind |-> "lit", text |-> "(COMMERCIAL)"],
    [kind |-> "lit", text |-> "(LESSEE)"],
    [kind |-> "lit", text |-> "(LOT OWNER)"],
    [kind |-> "lit", text |-> "(DWM CONTRACT)"] >>

\* r'\([^)]+\)': an opening parenthesis, one or more characters that are not a
\* closing one, and a closing parenthesis
ANY_PARENTHETICAL == [kind |-> "paren", text |-> "("]

----------------------------------------------------------------------------
(* The regex calls of _normalize_name.                                     *)

\* Length of the match of pattern pat at the start of s, 0 when there is none.
\* Literal and SL patterns are matched with re.IGNORECASE; each starts with "(".
MatchLen(pat, s) ==
    CASE pat.kind = "lit" ->
           IF StartsWithAt(s, 1, "(") /\ Len(s) >= Len(pat.text)
              /\ upper(Take(s, Len(pat.text))) = pat.text
           THEN Len(pat.text) ELSE 0
      [] pat.kind = "sl_digits" ->
           IF StartsWithAt(s, 1, "(") /\ Len(s) >= Len(pat.text)
              /\ upper(Take(s, Len(pat.text))) = pat.text
           THEN LET d == RunLen(Drop(s, Len(pat.text)), DigitSet)
                IN  IF d >= 1 /\ StartsWithAt(s, Len(pat.text) + d + 1, ")")
                    THEN Len(pat.text) + d + 1 ELSE 0
           ELSE 0
      [] pat.kind = "paren" ->
           IF s # "" /\ CharAt(s, 1) = "("
           THEN LET n == RunLenNot(Drop(s, 1), {")"})
                IN  IF n >= 1 /\ n + 2 <= Len(s) THEN n + 2 ELSE 0
           ELSE 0

\* The leftmost position from i on at which pat matches in s, 0 when none
RECURSIVE search_from(_, _, _)
search_from(pat, s, i) ==
    IF i > Len(s) THEN 0
    ELSE IF MatchLen(pat, Drop(s, i - 1)) > 0 THEN i
         ELSE search_from(pat, s, i + 1)

\* The match of pat at position i of s as [start, len]; i = 0 stands for no match
match_at(pat, s, i) ==
    [start |-> i, len |-> IF i = 0 THEN 0 ELSE MatchLen(pat, Drop(s, i - 1))]

\* re.search(pat, s): the leftmost match as [start, len], start 0 when none
re_search(pat, s) == match_at(pat, s, search_from(pat, s, 1))

\* match.group() of a hit m in s
group(s, m) == SubSeq(s, m.start, m.start + m.len - 1)

\* re.sub(pat, '', s): every non-overlapping match, leftmost first, is removed
RECURSIVE re_sub(_, _)
re_sub(pat, s) ==
    IF s = "" THEN ""
    ELSE IF MatchLen(pat, s) > 0 THEN re_sub(pat, Drop(s, MatchLen(pat, s)))
         ELSE CharAt(s, 1) \o re_sub(pat, Drop(s, 1))

\* t without the one dot \.? may match at its end
without_dot(t) == IF t # "" /\ CharAt(t, Len(t)) = "." THEN Take(t, Len(t) - 1) ELSE t

\* t without the comma and whitespace (?:,\s+)? may match at its start
without_comma(t) ==
    IF t # "" /\ CharAt(t, 1) = "," /\ RunLen(Drop(t, 1), SpaceSet) >= 1
    THEN Drop(t, 1 + RunLen(Drop(t, 1), SpaceSet)) ELSE t

\* Whether the whole of t is one of cores (IGNORECASE)
is_core(cores, t) == \E c \in cores : Len(c) = Len(t) /\ upper(t) = c

\* Whether the whole of t matches (?:,\s+)?CORE\.? for a CORE of cores
MatchesSuffix(cores, t) == is_core(cores, without_comma(without_dot(t)))

\* re.search of a business-suffix regex from position i on: the leftmost start
\* of a match that reaches the end of s, 0 when none
RECURSIVE search_suffix_from(_, _, _)
search_suffix_from(cores, s, i) ==
    IF i > Len(s) THEN 0
    ELSE IF MatchesSuffix(cores, Drop(s, i - 1)) THEN i
         ELSE search_suffix_from(cores, s, i + 1)

search_suffix(cores, s) == search_suffix_from(cores, s, 1)

\* re.match(f"^{pattern}$", word) for a pattern of WORD_REPLACEMENTS
MatchesWord(p, word) == word = p.text \/ (p.dot /\ word = p.text \o ".")

----------------------------------------------------------------------------
(* _normalize_name, step by step.                                          *)

\* Lines 188-190: the trailing run of asterisks goes, then every other asterisk
remove_asterisks(s) == replace(sub_trailing_stars(s), "*", "")

\* Lines 185-194 with the strip of line 194 made before the asterisks are
\* removed: the whitespace before a trailing asterisk stays
clean_markers_strip_first(s) ==
    sub_runs(remove_asterisks(strip(upper(s))), SpaceSet, " ")

\* Lines 185-194: upper-case, drop the asterisks, collapse and trim whitespace
clean_markers(s) == strip(sub_runs(remove_asterisks(upper(s)), SpaceSet, " "))

\* Lines 196-203: the first pattern of PRESERVE_SUFFIXES found in s, from the
\* k-th on, decides the preserved suffix; every match of that pattern leaves
\* the name.  m is the result of re.search for the k-th pattern.
RECURSIVE extract_preserved(_, _)
RECURSIVE preserved_or_next(_, _, _)
\* Lines 198-203 without the break of line 203: a later pattern that matches
\* takes the place of the suffix kept so far
preserved_no_break(s, k, m) ==
    IF m.start > 0
    THEN [suffix |-> IF extract_preserved(re_sub(PRESERVE_SUFFIXES[k], s), k + 1).suffix # ""
                     THEN extract_preserved(re_sub(PRESERVE_SUFFIXES[k], s), k + 1).suffix
                     ELSE " " \o group(s, m),
          name |-> extract_preserved(re_sub(PRESERVE_SUFFIXES[k], s), k + 1).name]
    ELSE extract_preserved(s, k + 1)

preserved_or_next(s, k, m) ==
    IF m.start > 0
    THEN [suffix |-> " " \o group(s, m), name |-> re_sub(PRESERVE_SUFFIXES[k], s)]
    ELSE extract_preserved(s, k + 1)

extract_preserved(s, k) ==
    IF k > Len(PRESERVE_SUFFIXES) THEN [suffix |-> "", name |-> s]
    ELSE preserved_or_next(s, k, re_search(PRESERVE_SUFFIXES[k], s))

\* Lines 205-207: every pattern of REMOVE_SUFFIXES is removed, in list order
RECURSIVE remove_suffixes(_, _)
remove_suffixes(s, k) ==
    IF k > Len(REMOVE_SUFFIXES) THEN s
    ELSE remove_suffixes(re_sub(REMOVE_SUFFIXES[k], s), k + 1)

\* Lines 205-210
remove_parentheticals(s) == re_sub(ANY_PARENTHETICAL, remove_suffixes(s, 1))

\* Line 218, line 220: runs of hyphens and whitespace become one space
normalize_separators(s) == sub_runs(s, {"-"} \cup SpaceSet, " ")

NormalizedPatterns == [k \in 1..Len(NAME_MAPPINGS) |-> normalize_separators(upper(NAME_MAPPINGS[k][1]))]

\* The first index of a set of indices, 0 for the empty set
first_of(hits) == IF hits = {} THEN 0 ELSE CHOOSE k \in hits : \A j \in hits : k <= j

\* Line 214: the entry whose key is s
exact_hit(s) == first_of({k \in 1..Len(NAME_MAPPINGS) : NAME_MAPPINGS[k][1] = s})

\* Lines 219-222: the first entry whose key equals normalized_input up to
\* hyphen and space runs
loose_hit(normalized_input) ==
    first_of({k \in 1..Len(NAME_MAPPINGS) : NormalizedPatterns[k] = normalized_input})

\* Lines 212-222: the index of the alias entry that s hits, 0 when none
alias_lookup(s) ==
    IF exact_hit(s) > 0 THEN exact_hit(s) ELSE loose_hit(normalize_separators(s))

\* Lines 224-232: the first regex of BUSINESS_SUFFIXES, from the k-th on, that
\* matches decides the business suffix, and its match leaves the name, which is
\* stripped.  i is where re.search found the k-th regex.
RECURSIVE extract_business_suffix(_, _)
RECURSIVE business_or_next(_, _, _)
business_or_next(s, k, i) ==
    IF i > 0
    THEN [suffix |-> " " \o BUSINESS_SUFFIXES[k].replacement, name |-> strip(Take(s, i - 1))]
    ELSE extract_business_suffix(s, k + 1)

extract_business_suffix(s, k) ==
    IF k > Len(BUSINESS_SUFFIXES) THEN [suffix |-> "", name |-> s]
    ELSE business_or_next(s, k, search_suffix(BUSINESS_SUFFIXES[k].cores, s))

\* Lines 234-237
normalize_conjunctions(s) ==
    sub_runs(replace(replace(s, " AND ", " & "), "&", " & "), SpaceSet, " ")

\* Lines 242-251: the first pattern of WORD_REPLACEMENTS the word matches replaces it
replacement_of(word, k) == IF k = 0 THEN word ELSE WORD_REPLACEMENTS[k].replacement

expand_word(word) ==
    replacement_of(word, first_of({k \in 1..Len(WORD_REPLACEMENTS) :
                                     MatchesWord(WORD_REPLACEMENTS[k], word)}))

\* Lines 272-275
capitalize_each(parts) == [j \in 1..Len(parts) |-> capitalize(parts[j])]

capitalize_hyphenated(word) == join("-", capitalize_each(split_on(word, "-")))

\* Lines 258-277 with the McXxx case of line 262 tried before the abbreviation
\* case of line 259
capitalize_word_mc_first(i, word) ==
    IF startswith(upper(word), "MC")
    THEN "Mc" \o capitalize(Drop(word, 2))
    ELSE IF Len(word) <= 3 /\ isupper(word) /\ word \notin DOMAIN WORD_CAPITALIZATIONS
    THEN word
    ELSE IF word \in DOMAIN WORD_CAPITALIZATIONS
    THEN IF i = 0 THEN capitalize(word) ELSE WORD_CAPITALIZATIONS[word]
    ELSE IF "-" \in CharsOf(word)
    THEN capitalize_hyphenated(word)
    ELSE capitalize(word)

\* Lines 258-277: the casing of the word at 0-based position i
capitalize_word(i, word) ==
    IF Len(word) <= 3 /\ isupper(word) /\ word \notin DOMAIN WORD_CAPITALIZATIONS
    THEN word
    ELSE IF startswith(upper(word), "MC")
    THEN "Mc" \o capitalize(Drop(word, 2))
    ELSE IF word \in DOMAIN WORD_CAPITALIZATIONS
    THEN IF i = 0 THEN capitalize(word) ELSE WORD_CAPITALIZATIONS[word]
    ELSE IF "-" \in CharsOf(word)
    THEN capitalize_hyphenated(word)
    ELSE capitalize(word)

\* Lines 240-252
expand_words(words) == join(" ", [j \in 1..Len(words) |-> expand_word(words[j])])

\* Lines 255-279
capitalize_words(words) == join(" ", [j \in 1..Len(words) |-> capitalize_word(j - 1, words[j])])

\* Lines 239-279: abbreviation expansion, then capitalization
format_words(s) == capitalize_words(split(expand_words(split(s))))

\* Lines 281-283: the condition under which the business suffix is added back
suffix_in_original(original_name) ==
    \E k \in 1..Len(BUSINESS_SUFFIXES) : search_suffix(BUSINESS_SUFFIXES[k].cores, original_name) > 0

\* Lines 281-290 with line 290 returning name, not name.strip()
reattach_unstripped(formatted, business_suffix, original_name, preserved_suffix) ==
    formatted
    \o (IF business_suffix # "" /\ suffix_in_original(original_name)
        THEN business_suffix ELSE "")
    \o preserved_suffix

\* Lines 281-290: the suffixes are added back and the result is stripped
reattach(formatted, business_suffix, original_name, preserved_suffix) ==
    strip(formatted
          \o (IF business_suffix # "" /\ suffix_in_original(original_name)
              THEN business_suffix ELSE "")
          \o preserved_suffix)

\* Lines 234-290, biz being the outcome of lines 224-232
format_name(biz, original_name, preserved_suffix) ==
    reattach(format_words(normalize_conjunctions(biz.name)), biz.suffix,
             original_name, preserved_suffix)

\* Lines 224-290: the rule path, taken when no alias matched
rule_path(s, preserved_suffix) ==
    format_name(extract_business_suffix(s, 1), s, preserved_suffix)

\* Lines 212-290, hit being the outcome of the alias lookup
alias_or_rules(hit, cleaned, preserved_suffix) ==
    IF hit > 0 THEN NAME_MAPPINGS[hit][2] \o preserved_suffix
    ELSE rule_path(cleaned, preserved_suffix)

\* Lines 205-290, the preserved suffix being set aside
normalize_cleaned(cleaned, preserved_suffix) ==
    alias_or_rules(alias_lookup(cleaned), cleaned, preserved_suffix)

\* Lines 196-290, kept being the outcome of lines 196-203
normalize_kept(kept) == normalize_cleaned(remove_parentheticals(kept.name), kept.suffix)

_normalize_name(s) ==
    IF s = "" THEN s
    ELSE normalize_kept(extract_preserved(clean_markers(s), 1))

----------------------------------------------------------------------------
(* _parse_record.                                                          *)

\* The dict {}
EmptyDict == <<>>

\* No record string was put together
NoPieces == [opening |-> "", quote |-> "", name |-> "", stars |-> "", separator |-> "",
             count |-> "", closing |-> ""]

\* int(digits) for a string of decimal digits
RECURSIVE int(_)
int(digits) ==
    IF digits = "" THEN 0
    ELSE 10 * int(Take(digits, Len(digits) - 1))
         + (CHOOSE d \in 0..9 : CharAt(Digits, d + 1) = CharAt(digits, Len(digits)))

\* Line 307: the match of
\*   ([^,]+?)(?:\*+)?,\s*(?:'': |)(\d+)(?:\}|\))
\* in s from position p on, p being the position after the opening "{'': " or "(".
\* Group 1 is lazy and the asterisks after it greedy, so group 1 is the text up to
\* the first comma less its trailing asterisks, and never empty.
match_fields(s, p) ==
    LET n == RunLenNot(Drop(s, p - 1), {","})
        between == SubSeq(s, p, p + n - 1)
        unstarred == sub_trailing_stars(between)
        group1 == IF unstarred = "" THEN Take(between, 1) ELSE unstarred
        q == p + n + 1
        r == q + RunLen(Drop(s, q - 1), SpaceSet)
        t == IF StartsWithAt(s, r, "'': ") THEN r + 4 ELSE r
        d == RunLen(Drop(s, t - 1), DigitSet)
    IN  IF /\ n >= 1
           /\ p + n <= Len(s)
           /\ d >= 1
           /\ (StartsWithAt(s, t + d, "}") \/ StartsWithAt(s, t + d, ")"))
        THEN [found |-> TRUE, group1 |-> group1, group2 |-> SubSeq(s, t, t + d - 1)]
        ELSE [found |-> FALSE, group1 |-> "", group2 |-> ""]

\* Line 307: the length of the opening (?:\{'': |^\() at position i of s, 0 when
\* there is none; "^\(" can match at the first character only
opening(s, i) ==
    IF StartsWithAt(s, i, "{'': ") THEN 5
    ELSE IF i = 1 /\ StartsWithAt(s, 1, "(") THEN 1 ELSE 0

\* The match that starts at position i of s
match_from(s, i) ==
    IF opening(s, i) > 0 THEN match_fields(s, i + opening(s, i))
    ELSE [found |-> FALSE, group1 |-> "", group2 |-> ""]

\* Line 307: re.search: the match with the leftmost start, from position i on
RECURSIVE search_record_from(_, _)
search_record_from(s, i) ==
    IF i > Len(s) THEN [found |-> FALSE, group1 |-> "", group2 |-> ""]
    ELSE IF match_from(s, i).found THEN match_from(s, i)
         ELSE search_record_from(s, i + 1)

search_record(s) == search_record_from(s, 1)

\* Whether bool(value) raises: pandas.NA has no truth value (TypeError)
truth_raises(v) == v.type = "NAType"

\* bool(value) of a Python value [type, value] that has a truth value
truthy(v) ==
    CASE v.type = "NoneType" -> FALSE
      [] v.type = "int" -> v.value # 0
      [] v.type = "float" -> v.value # "0.0"
      [] v.type \in {"list", "dict"} -> v.value # <<>>
      [] v.type \in {"str", "bytes"} -> v.value # ""

\* Lines 312-321: the dict made of a match
record_of(match) ==
    IF ~match.found THEN [raised |-> FALSE, value |-> EmptyDict]
    ELSE [raised |-> FALSE,
          value |-> [name |-> _normalize_name(strip(match.group1)),
                     count |-> int(match.group2)]]

\* Lines 305-321, the body of the try: [raised, value].  re.search raises
\* TypeError on anything but a str (the pattern is a str).
parse_record_body(record_str) ==
    IF record_str.type # "str" THEN [raised |-> TRUE, value |-> "TypeError"]
    ELSE record_of(search_record(record_str.value))

\* Lines 322-324: an exception of the body is caught and {} returned
caught(r) == IF r.raised THEN [raised |-> FALSE, value |-> EmptyDict] ELSE r

\* _parse_record without its except clause: an exception of the body escapes
parse_record_uncaught(record_str) ==
    IF truth_raises(record_str) THEN [raised |-> TRUE, value |-> "TypeError"]
    ELSE IF ~truthy(record_str) THEN [raised |-> FALSE, value |-> EmptyDict]
    ELSE parse_record_body(record_str)

\* Lines 292-324.  The truth test of lines 301-302 is made before the try, so
\* an exception of it escapes.
_parse_record(record_str) ==
    IF truth_raises(record_str) THEN [raised |-> TRUE, value |-> "TypeError"]
    ELSE IF ~truthy(record_str) THEN [raised |-> FALSE, value |-> EmptyDict]
    ELSE caught(parse_record_body(record_str))

----------------------------------------------------------------------------
(* The raw contractor names the normalizer is run on.                      *)

\* Longest run of trailing asterisks on a raw name
MaxStars == 2
\* Number of times the normalizer is run on a name and then on its own output
MaxCalls == 2

RECURSIVE Stars(_)
Stars(n) == IF n = 0 THEN "" ELSE "*" \o Stars(n - 1)

StarRuns == {Stars(n) : n \in 0..MaxStars}

\* Names of one or two words: a first word, a joiner, a second word
FirstWords == {"", "A", "ABC", "SMITH", "Smith", "MCDONALD", "OF", "SEVEN-D", "G&V", "CONSTR."}
Joiners == {"", " ", "  ", "\t", "-", "&", " & ", " AND ", ", ", " (SL) "}
SecondWords == {"", "B", "SONS", "CO", "INC", "ZINC", "TOBACCO", "NSTRUCTION", "CONST",
                "HTG", "EXCAV.", "MC", "DBA", "AND", "a-b", "*"}
WordNames == {w \o j \o v : w \in FirstWords, j \in Joiners, v \in SecondWords}

\* Names with a business suffix, a parenthetical and trailing asterisks
BaseNames == {"SMITH", "A & B", "ABC PLBG"}
BusinessEndings == {"", " INC", " INC.", ", INC", ",INC", " INCORPORATED", " LLC", " CO",
                    " CO.", " COMPANY", " CORP", " CORPORATION", " LTD", " LTD."}
Parentheticals == {"", " (SL-12)", " (SL)", " (SEAL)", " (OVERSIZE)", "(sl)", " (HOMEOWNER)",
                   " (LOT OWNER)", " (X)", " ()", " ((X))", " (SL) (SEAL)",
                   " (SL-1) (SL-2)", " (SEAL) (SL-7)"}
SuffixedNames == {b \o e \o q \o t : b \in BaseNames, e \in BusinessEndings,
                                     q \in Parentheticals, t \in StarRuns}

\* Names without a word: markers, blanks and parentheticals only
BlankNames == {q \o t : q \in Parentheticals \cup {" ", "("}, t \in StarRuns}

ComposedNames == WordNames \cup SuffixedNames \cup BlankNames

\* The spellings of an alias key: the key, its letter case changed, and its runs
\* of hyphens and spaces replaced by another run
SeparatorRuns == {"-", "  ", " - "}
CaseVariants(key) == {key, lower(key)}
Variants(key) ==
    CaseVariants(key) \cup
    UNION {CaseVariants(sub_runs(key, {"-", " "}, r)) : r \in SeparatorRuns}

\* What may follow an alias key in a raw name
Decorations == {"", " (SL)", " (SL-12)", " (HOMEOWNER)", " INC"}
    \cup {t : t \in StarRuns} \cup {" " \o t : t \in StarRuns}

NoOrigin == [key |-> 0, decoration |-> ""]

----------------------------------------------------------------------------
(* The normalizer run on a raw name, and run again on its own output.      *)

NormIdle == raw = "" /\ origin = NoOrigin /\ name = "" /\ out = "" /\ calls = 0
ParseIdle == /\ record = [type |-> "NoneType", value |-> ""]
             /\ encoded = NoPieces
             /\ parsed = [raised |-> FALSE, value |-> EmptyDict]
BoardIdle == /\ permits = <<>> /\ limit = 0 /\ post = "none" /\ received = <<>>
             /\ leaderboard = [raised |-> FALSE, type |-> "list", items |-> <<>>]

\* No row of daily counts: the query result is empty
NoRow == [total_permits |-> 0, emergency_permits |-> 0]
NoComparison == [raised |-> FALSE, value |-> <<>>]
\* No value: None in Python
None == [type |-> "NoneType", items |-> <<>>, value |-> 0]
NoGenerator == [raised |-> FALSE, missing |-> {}, built |-> FALSE]
CfgIdle ==
    /\ settings = None /\ db_opens = TRUE
    /\ generator = NoGenerator /\ rolling = None
NoStats == [raised |-> FALSE, total_records |-> 0, inserts |-> 0, updates |-> 0]
StoreIdle ==
    /\ permit_rows = <<>> /\ snapshot = <<>> /\ batch = <<>>
    /\ stored = NoStats /\ stores = 0
\* run_daily_update.py lines 61-66, and the other locals of an attempt
NoStatus ==
    [fetch_success |-> FALSE, storage_success |-> FALSE, stats_success |-> FALSE]
NoPermitStats == [made |-> FALSE, emergency_percent |-> 0]
FreshAttempt ==
    /\ records_fetched = 0 /\ storage_stats = NoStats
    /\ pipeline_status = NoStatus /\ permit_stats = NoPermitStats
    /\ heatmap = FALSE /\ thread = "none" /\ error = ""
PipeIdle ==
    /\ attempt = 0 /\ test_mode = FALSE /\ yesterday_counts = NoRow
    /\ FreshAttempt
RetryIdle ==
    /\ max_attempts = 0 /\ delay_seconds = 0 /\ exponential = FALSE
    /\ func_calls = 0 /\ sleeps = <<>> /\ returned = ""
ThreadIdle ==
    /\ posts = <<>> /\ published = <<>> /\ position = 0
    /\ root_ref = -1 /\ parent_ref = -1 /\ thread_error = ""
TailIdle == RetryIdle /\ ThreadIdle
RestIdle == CfgIdle /\ StoreIdle /\ PipeIdle /\ TailIdle

DayIdle ==
    /\ daily = <<>> /\ window = 0
    /\ history = <<>> /\ target = NoRow /\ comparison = NoComparison
    /\ daily_stats = NoComparison

InitNormalize ==
    /\ pc = "start"
    /\ \E k \in 0..Len(NAME_MAPPINGS) :
         IF k = 0
         THEN origin = NoOrigin /\ raw \in ComposedNames
         ELSE \E v \in Variants(NAME_MAPPINGS[k][1]), d \in Decorations :
                origin = [key |-> k, decoration |-> d] /\ raw = v \o d
    /\ name = "" /\ out = "" /\ calls = 0
    /\ ParseIdle /\ BoardIdle /\ DayIdle /\ RestIdle

\* A caller (lines 316, 556) hands the raw name to _normalize_name
NormalizeName ==
    /\ pc = "start"
    /\ name' = raw
    /\ out' = _normalize_name(raw)
    /\ calls' = 1
    /\ pc' = "normalized"
    /\ UNCHANGED <<raw, origin, parseVars, boardVars, dayVars, restVars>>

\* The pipeline is run again on a name it produced
Renormalize ==
    /\ pc = "normalized"
    /\ calls < MaxCalls
    /\ name' = out
    /\ out' = _normalize_name(out)
    /\ calls' = calls + 1
    /\ UNCHANGED <<pc, raw, origin, parseVars, boardVars, dayVars, restVars>>

NextNormalize == NormalizeName \/ Renormalize

SpecNormalize == InitNormalize /\ [][NextNormalize]_vars

----------------------------------------------------------------------------
(* _parse_record run on an encoded (name, count) pair or on another value.  *)

Openings == {"(", "{'': ", "x(", ""}
Quotes == {"", "'"}
RecordNames == {"ACME CO", "SMITH, JOHN", "COM-ED", "A, B, C", ""}
FieldSeparators == {", ", ", '': ", " "}
CountTexts == {"7", "12", "", "x"}
Closings == {")", "}", ""}

Pieces == [opening : Openings, quote : Quotes, name : RecordNames, stars : StarRuns,
           separator : FieldSeparators, count : CountTexts, closing : Closings]

\* The string a grouped query row is printed as
Encode(e) == e.opening \o e.quote \o e.name \o e.stars \o e.quote
             \o e.separator \o e.count \o e.closing

\* Values that are not strings
OtherValues == {[type |-> "NoneType", value |-> ""], [type |-> "int", value |-> 0],
                [type |-> "int", value |-> 7], [type |-> "float", value |-> "nan"],
                [type |-> "bytes", value |-> "(A, 7)"], [type |-> "bytes", value |-> ""],
                [type |-> "list", value |-> <<>>], [type |-> "list", value |-> <<"(A, 7)">>],
                [type |-> "dict", value |-> <<>>], [type |-> "dict", value |-> <<"(A, 7)">>],
                [type |-> "NAType", value |-> ""]}

InitParse ==
    /\ pc = "start"
    /\ \/ \E e \in Pieces : encoded = e /\ record = [type |-> "str", value |-> Encode(e)]
       \/ encoded = NoPieces /\ record \in OtherValues
    /\ parsed = [raised |-> FALSE, value |-> EmptyDict]
    /\ NormIdle /\ BoardIdle /\ DayIdle /\ RestIdle

ParseRecord ==
    /\ pc = "start"
    /\ parsed' = _parse_record(record)
    /\ pc' = "parsed"
    /\ UNCHANGED <<record, encoded, normVars, boardVars, dayVars, restVars>>

NextParse == ParseRecord

SpecParse == InitParse /\ [][NextParse]_vars

----------------------------------------------------------------------------
(* get_contractor_leaderboard and the caller that formats its result.      *)

\* Largest number of yesterday's rows of one contact
MaxCount == 2
\* Largest limit asked for
MaxLimit == 2

\* SQL NULL
NULL == "NULL"

\* The contacts of yesterday's rows: contact_first_name, contact_last_name
Contacts == <<
    [first |-> "", last |-> "COMED"],
    [first |-> NULL, last |-> "COM ED"],
    [first |-> "", last |-> "COM-ED"],
    [first |-> "JOHN", last |-> "SMITH"],
    [first |-> "", last |-> "**"],
    [first |-> "X", last |-> ""] >>

\* Whether a contact's rows are counted up to MaxCount; the others have one at most
Frequent(c) == Contacts[c].last \notin {"**", ""}

RowCounts == {f \in [1..Len(Contacts) -> 0..MaxCount] :
                \A c \in 1..Len(Contacts) : Frequent(c) \/ f[c] <= 1}

\* Lines 530-533: the CASE expression that names the contractor of a row
contractor_name(c) ==
    IF c.first = "" \/ c.first = NULL THEN c.last ELSE c.first \o " " \o c.last

\* Lines 536-538: the rows the WHERE clause keeps, all rows being yesterday's
kept(c) == c.last # NULL /\ c.last # ""

\* Lines 529-540: GROUP BY 1 with COUNT(*), HAVING COUNT(*) > 0
RECURSIVE SumOver(_, _)
SumOver(f, S) == IF S = {} THEN 0
                 ELSE LET x == CHOOSE y \in S : TRUE IN f[x] + SumOver(f, S \ {x})

contractor_counts(rows) ==
    LET names == {contractor_name(Contacts[c]) : c \in {d \in DOMAIN rows : kept(Contacts[d])}}
        count(n) == SumOver(rows, {c \in DOMAIN rows :
                                     kept(Contacts[c]) /\ contractor_name(Contacts[c]) = n})
    IN  {g \in {[contractor_name |-> n, permit_count |-> count(n)] : n \in names} :
           g.permit_count > 0}

\* Line 541: ORDER BY permit_count DESC; rows with equal counts come in any order
RECURSIVE ordered(_)
ordered(groups) ==
    IF groups = {} THEN {<<>>}
    ELSE UNION {{<<g>> \o rest : rest \in ordered(groups \ {g})} :
                  g \in {x \in groups : \A y \in groups : x.permit_count >= y.permit_count}}

\* The first n elements of a sequence: seq[:n], LIMIT n
first_n(seq, n) == SubSeq(seq, 1, IF Len(seq) < n THEN Len(seq) ELSE n)

\* Lines 522-547: the results the query can give under LIMIT n
query_results(rows, n) == {first_n(o, n) : o \in ordered(contractor_counts(rows))}

\* Lines 557-561: a row is added under its normalized name unless that is ''
add_row(n, count, rest) ==
    IF n # "" THEN <<[name |-> n, count |-> count]>> \o rest ELSE rest

\* Lines 553-561: the rows normalized, in the order of the query result
RECURSIVE normalized_rows(_)
normalized_rows(result) ==
    IF result = <<>> THEN <<>>
    ELSE add_row(_normalize_name(Head(result).contractor_name),
                 Head(result).permit_count, normalized_rows(Tail(result)))

\* Line 564 with a sort that is not stable: an entry goes behind the entries
\* of the same count that came after it
RECURSIVE insert_desc_unstable(_, _)
insert_desc_unstable(e, sorted) ==
    IF sorted = <<>> THEN <<e>>
    ELSE IF Head(sorted).count < e.count THEN <<e>> \o sorted
         ELSE <<Head(sorted)>> \o insert_desc_unstable(e, Tail(sorted))

\* Line 564: sorted(..., key=count, reverse=True), a stable sort: the first
\* entry of a list goes before the entries after it whose count is not larger
RECURSIVE insert_desc(_, _)
insert_desc(e, sorted) ==
    IF sorted = <<>> THEN <<e>>
    ELSE IF Head(sorted).count <= e.count THEN <<e>> \o sorted
         ELSE <<Head(sorted)>> \o insert_desc(e, Tail(sorted))

RECURSIVE sorted_desc(_)
sorted_desc(entries) ==
    IF entries = <<>> THEN <<>>
    ELSE insert_desc(Head(entries), sorted_desc(Tail(entries)))

\* Lines 547-569: what get_contractor_leaderboard returns for a query result
get_contractor_leaderboard(result, n) ==
    IF result = <<>> THEN [raised |-> FALSE, type |-> "list", items |-> <<>>]
    ELSE [raised |-> FALSE, type |-> "list",
          items |-> first_n(sorted_desc(normalized_rows(result)), n)]

\* bluesky.py line 338, test_stats.py line 40: leaderboard['overall'] needs a dict
\* with that key; a list subscripted by a str raises TypeError, which
\* post_daily_thread turns into BlueskyPostError (lines 359-362)
read_overall(board) ==
    IF board.type = "dict" /\ "overall" \in DOMAIN board.items THEN "formatted"
    ELSE "BlueskyPostError"

InitBoard ==
    /\ pc = "start"
    /\ permits \in RowCounts
    /\ limit \in 1..MaxLimit
    /\ received = <<>>
    /\ leaderboard = [raised |-> FALSE, type |-> "list", items |-> <<>>]
    /\ post = "none"
    /\ NormIdle /\ ParseIdle /\ DayIdle /\ RestIdle

\* run_daily_update.py line 118
GetContractorLeaderboard ==
    /\ pc = "start"
    /\ received' \in query_results(permits, limit)
    /\ leaderboard' = get_contractor_leaderboard(received', limit)
    /\ pc' = "ranked"
    /\ UNCHANGED <<permits, limit, post, normVars, parseVars, dayVars, restVars>>

\* run_daily_update.py lines 152-158
PostDailyThread ==
    /\ pc = "ranked"
    /\ ~leaderboard.raised
    /\ post' = read_overall(leaderboard)
    /\ pc' = "posted"
    /\ UNCHANGED <<permits, limit, received, leaderboard,
                   normVars, parseVars, dayVars, restVars>>

NextBoard == GetContractorLeaderboard \/ PostDailyThread

SpecBoard == InitBoard /\ [][NextBoard]_vars

----------------------------------------------------------------------------
(* get_day_of_week_comparison.  Averages and percentages are kept in       *)
(* tenths: 1100 stands for 110.0.                                          *)

\* Largest number of dates of the window that share the target's weekday
MaxDays == 3

\* Lines 403-416, 437-447: the daily counts of a date that has records
DayCounts ==
    {[total_permits |-> 1, emergency_permits |-> 0],
     [total_permits |-> 1, emergency_permits |-> 1],
     [total_permits |-> 2, emergency_permits |-> 1],
     [total_permits |-> 100, emergency_permits |-> 10],
     [total_permits |-> 110, emergency_permits |-> 0],
     [total_permits |-> 120, emergency_permits |-> 30],
     [total_permits |-> 132, emergency_permits |-> 12]}

\* Line 389: the date asked about, as a day number
TargetDate == 7 * (MaxDays + 1)

\* The dates of the snapshot: the target's weekday of MaxDays earlier weeks and
\* of the next week, the target date and the day before it
Dates ==
    {TargetDate - 7 * k : k \in 1..MaxDays}
        \cup {TargetDate - 1, TargetDate, TargetDate + 7}

\* The counts of a date beside the window's dates of the weekday
OtherCounts == {NoRow, [total_permits |-> 2, emergency_permits |-> 1]}

\* Lines 400, 435: the counts per date that the records of the snapshot give
Snapshots ==
    {table \in [Dates -> DayCounts \cup {NoRow}] :
        \A d \in {TargetDate - 1, TargetDate + 7} : table[d] \in OtherCounts}

\* Line 393: values of rolling_window_days, reaching back to the earliest date
\* of the snapshot or to the week after it
Windows == {7 * MaxDays, 7 * (MaxDays - 1)}

\* Lines 390, 443: the weekday of a date
day_name(date) == date % 7

\* Line 394
history_start(target_date, rolling_window) == target_date - rolling_window

\* Lines 437-447: the dates of historical_counts, a group per date with records
historical_dates(table, target_date, rolling_window) ==
    {d \in DOMAIN table :
        /\ table[d] # NoRow
        /\ day_name(d) = day_name(target_date)
        /\ d < target_date
        /\ d >= history_start(target_date, rolling_window)}

\* Lines 437-447: the rows of historical_counts, by date
RECURSIVE historical_counts(_, _)
rows_from(table, dates, d) ==
    <<table[d]>> \o historical_counts(table, dates \ {d})

historical_counts(table, dates) ==
    IF dates = {}
    THEN <<>>
    ELSE rows_from(table, dates, CHOOSE d \in dates : \A e \in dates : d <= e)

\* Lines 449-450: the sums that AVG divides by the number of rows
RECURSIVE total_sum(_)
total_sum(rows) ==
    IF rows = <<>> THEN 0 ELSE Head(rows).total_permits + total_sum(Tail(rows))

RECURSIVE emergency_sum(_)
emergency_sum(rows) ==
    IF rows = <<>>
    THEN 0
    ELSE Head(rows).emergency_permits + emergency_sum(Tail(rows))

Abs(x) == IF x < 0 THEN 0 - x ELSE x

\* The integers nearest to num / den, den > 0: one, or two when num / den lies
\* halfway between two integers
nearest(num, den) ==
    {m \in {num \div den, (num \div den) + 1} : 2 * Abs(m * den - num) <= den}

\* The integer nearest to num / den, the even one when it lies halfway
half_even(num, den) ==
    {m \in nearest(num, den) : Cardinality(nearest(num, den)) = 1 \/ m % 2 = 0}

\* Whether num / den is an integer over a power of two, which the float
\* division gives exactly
RECURSIVE dyadic(_, _)
dyadic(num, den) == num % den = 0 \/ (den % 2 = 0 /\ dyadic(num, den \div 2))

\* round(x, 1) in tenths, x being the float computed for num / den: the tenth
\* nearest to the float.  An exact float that lies halfway goes to the even
\* tenth; a float that is not exact lies beside num / den, and when num / den
\* lies halfway either tenth can be the nearer one.
round_1(num, den, exact) ==
    IF exact THEN half_even(10 * num, den) ELSE nearest(10 * num, den)

\* Lines 449-451, 457-462: an average as the sum and the number of days, with
\* whether its float is exact; without a day the average is the integer 0
avg_of(sum, days) ==
    [sum |-> sum, days |-> days, exact |-> days = 0 \/ dyadic(sum, days)]

\* Line 464: avg_regular, the difference of two floats, exact when both are
avg_minus(avg_total, avg_emergency) ==
    [sum |-> avg_total.sum - avg_emergency.sum, days |-> avg_total.days,
     exact |-> avg_total.exact /\ avg_emergency.exact]

\* Lines 475-477: round(avg, 1) in tenths
round_avg(avg) ==
    IF avg.days = 0 THEN {0} ELSE round_1(avg.sum, avg.days, avg.exact)

\* Line 468 without the test of avg > 0: the division by a zero average raises
calc_percent_diff_unguarded(actual, avg) ==
    IF avg.days > 0 /\ avg.sum # 0
    THEN {[raised |-> FALSE, value |-> v] :
            v \in round_1(100 * (actual * avg.days - avg.sum), avg.sum, FALSE)}
    ELSE {[raised |-> TRUE, value |-> 0]}

\* Line 468 with the quotient rounded down to the first decimal
calc_percent_diff_truncated(actual, avg) ==
    IF avg.days > 0 /\ avg.sum > 0
    THEN {[raised |-> FALSE,
           value |-> (1000 * (actual * avg.days - avg.sum)) \div avg.sum]}
    ELSE {[raised |-> FALSE, value |-> 0]}

\* Lines 467-468: calc_percent_diff in tenths, as [raised, value];
\* (actual - avg) / avg * 100 is exact when avg and the quotient are
calc_percent_diff(actual, avg) ==
    IF avg.days > 0 /\ avg.sum > 0
    THEN {[raised |-> FALSE, value |-> v] :
            v \in round_1(100 * (actual * avg.days - avg.sum), avg.sum,
                          avg.exact
                          /\ dyadic(actual * avg.days - avg.sum, avg.sum))}
    ELSE {[raised |-> FALSE, value |-> 0]}

\* Lines 470-481: the dict returned, for one outcome of each rounding
comparison_of(actual_total, actual_emergency, avgs, diffs) ==
    [actual_total |-> actual_total,
     actual_emergency |-> actual_emergency,
     actual_regular |-> actual_total - actual_emergency,
     avg_total |-> avgs[1],
     avg_emergency |-> avgs[2],
     avg_regular |-> avgs[3],
     total_diff_percent |-> diffs[1].value,
     emergency_diff_percent |-> diffs[2].value,
     regular_diff_percent |-> diffs[3].value]

\* Lines 484-489: an exception of the body is raised as StatsGenerationError
outcome_of(actual_total, actual_emergency, avgs, diffs) ==
    IF \E i \in 1..3 : diffs[i].raised
    THEN [raised |-> TRUE, value |-> <<>>]
    ELSE [raised |-> FALSE,
          value |-> comparison_of(actual_total, actual_emergency, avgs, diffs)]

\* Lines 464-481, for the actual counts and the averages of the three metrics
compare_with(actual_total, actual_emergency, avg_total, avg_emergency, avg_regular) ==
    {outcome_of(actual_total, actual_emergency, avgs, diffs) :
        avgs \in round_avg(avg_total) \X round_avg(avg_emergency)
                 \X round_avg(avg_regular),
        diffs \in calc_percent_diff(actual_total, avg_total)
                  \X calc_percent_diff(actual_emergency, avg_emergency)
                  \X calc_percent_diff(actual_total - actual_emergency,
                                       avg_regular)}

\* Lines 455-464: the averages over the rows of the window
compare_averages(actual_total, actual_emergency, avg_total, avg_emergency) ==
    compare_with(actual_total, actual_emergency, avg_total, avg_emergency,
                 avg_minus(avg_total, avg_emergency))

\* Lines 382-489: the outcomes of get_day_of_week_comparison for the counts of
\* the target date (NoRow when it has no record) and the rows of the window
get_day_of_week_comparison(target_counts, rows) ==
    compare_averages(target_counts.total_permits,
                     target_counts.emergency_permits,
                     avg_of(total_sum(rows), Len(rows)),
                     avg_of(emergency_sum(rows), Len(rows)))

\* What the DataFrame holds for a NULL of an integer column: NaN in a float
\* column or pandas.NA in a nullable integer column, by the version of duckdb
NullValues == {"nan", "NA"}

\* Lines 343-349: the one row of the aggregate over the records of a date;
\* COUNT(*) of no record is 0 and SUM of no record is NULL
aggregate_row(counts, null) ==
    IF counts = NoRow
    THEN [total_permits |-> [null |-> "", value |-> 0],
          emergency_permits |-> [null |-> null, value |-> 0]]
    ELSE [total_permits |-> [null |-> "", value |-> counts.total_permits],
          emergency_permits |->
              [null |-> "", value |-> counts.emergency_permits]]

\* Lines 363-364: whether int(x or 0) raises: NaN is true and int(NaN) raises
\* ValueError, the truth value of pandas.NA raises TypeError
int_raises(cell) == cell.null \in NullValues

\* Lines 353-372: the dict built of the row, which is never empty
daily_stats_of(row) ==
    IF int_raises(row.total_permits) \/ int_raises(row.emergency_permits)
    THEN [raised |-> TRUE, value |-> <<>>]
    ELSE [raised |-> FALSE,
          value |->
              [total_permits |-> row.total_permits.value,
               emergency_permits |-> row.emergency_permits.value,
               regular_permits |->
                   row.total_permits.value - row.emergency_permits.value]]

\* Lines 326-380: generate_daily_stats without its count of streets; an
\* exception of the body is raised as StatsGenerationError
generate_daily_stats(table, yesterday, null) ==
    daily_stats_of(aggregate_row(table[yesterday], null))

\* The daily counts the database holds before a comparison is asked for
InitDay ==
    /\ pc = "start"
    /\ daily \in Snapshots
    /\ window \in Windows
    /\ history = <<>>
    /\ target = NoRow
    /\ comparison = NoComparison
    /\ daily_stats = NoComparison
    /\ NormIdle
    /\ ParseIdle
    /\ BoardIdle
    /\ RestIdle

\* Lines 382-489: one call of get_day_of_week_comparison
GetDayOfWeekComparison ==
    /\ pc = "start"
    /\ history' =
           historical_counts(daily, historical_dates(daily, TargetDate, window))
    /\ target' = daily[TargetDate]
    /\ comparison' \in get_day_of_week_comparison(target', history')
    /\ pc' = "compared"
    /\ UNCHANGED <<daily, window, daily_stats, normVars, parseVars, boardVars, restVars>>

\* Lines 326-380: one call of generate_daily_stats, yesterday being the target
\* date; the snapshot holds a Parquet file
GenerateDailyStats ==
    /\ pc = "start"
    /\ \E null \in NullValues :
         daily_stats' = generate_daily_stats(daily, TargetDate, null)
    /\ pc' = "counted"
    /\ UNCHANGED <<daily, window, history, target, comparison,
                   normVars, parseVars, boardVars, restVars>>

NextDay == GetDayOfWeekComparison \/ GenerateDailyStats

SpecDay == InitDay /\ [][NextDay]_vars

----------------------------------------------------------------------------
(* StatsGenerator(): the constructor and its check of the configuration.   *)

\* Values of config.yaml: integers, the string of a period, mappings
IntValue(n) == [type |-> "int", items |-> <<>>, value |-> n]
Daily == [type |-> "str", items |-> <<>>, value |-> 0]
Dict(items) == [type |-> "dict", items |-> items, value |-> 0]

\* stats.py lines 138-139: the settings of analytics.stats that are required
StatsKeys == {"aggregation_period", "rolling_window_days"}

\* The analytics.stats section with any of the two settings absent or null
StatsSections ==
    UNION {[present -> {None, Daily, IntValue(0), IntValue(7), IntValue(90)}] :
             present \in SUBSET StatsKeys}

\* config.py lines 13-14: what yaml.safe_load returns, down to analytics.stats
Configurations ==
    {None,
     Dict(<<>>),
     Dict([analytics |-> None]),
     Dict([analytics |-> Dict(<<>>)]),
     Dict([analytics |-> Dict([stats |-> None])])}
        \cup {Dict([analytics |-> Dict([stats |-> Dict(section)])]) :
                section \in StatsSections}

\* config.py line 39: dict.get
get(current, key) ==
    IF key \in DOMAIN current.items THEN current.items[key] ELSE None

\* config.py lines 33-40, of a mapping or None
RECURSIVE _get_nested(_, _)
_get_nested(current, keys) ==
    IF keys = <<>> THEN current
    ELSE IF current = None THEN None
    ELSE _get_nested(get(current, Head(keys)), Tail(keys))

\* stats.py lines 135-146 without the test of rolling_window_days
validate_config_period_only(config) ==
    IF _get_nested(config, <<"analytics", "stats", "aggregation_period">>) = None
    THEN [raised |-> TRUE, missing |-> {"aggregation_period"}, built |-> FALSE]
    ELSE [raised |-> FALSE, missing |-> {}, built |-> TRUE]

\* stats.py line 142: the names of the settings that are None
missing_of(config) ==
    {k \in StatsKeys : _get_nested(config, <<"analytics", "stats", k>>) = None}

\* stats.py lines 135-146: StatsGenerationError with the list of the missing
_validate_config(config) ==
    IF missing_of(config) # {}
    THEN [raised |-> TRUE, missing |-> missing_of(config), built |-> FALSE]
    ELSE [raised |-> FALSE, missing |-> {}, built |-> TRUE]

\* stats.py lines 120-133: the connection comes first; an exception of either
\* step is raised as StatsGenerationError with the message of that step
__init__(config, opens) ==
    IF opens
    THEN _validate_config(config)
    ELSE [raised |-> TRUE, missing |-> {}, built |-> FALSE]

InitConfig ==
    /\ pc = "start"
    /\ settings \in Configurations
    /\ db_opens \in BOOLEAN
    /\ generator = NoGenerator
    /\ rolling = None
    /\ NormIdle /\ ParseIdle /\ BoardIdle /\ DayIdle /\ StoreIdle /\ PipeIdle
    /\ TailIdle

\* run_daily_update.py line 57: stats = StatsGenerator()
NewStatsGenerator ==
    /\ pc = "start"
    /\ generator' = __init__(settings, db_opens)
    /\ pc' = "constructed"
    /\ UNCHANGED <<settings, db_opens, rolling,
                   normVars, parseVars, boardVars, dayVars, storeVars, pipeVars,
                   retryVars, threadVars>>

\* stats.py line 393: an aggregation of the instance reads the window
ReadRollingWindow ==
    /\ pc = "constructed"
    /\ generator.built
    /\ rolling' =
           _get_nested(settings, <<"analytics", "stats", "rolling_window_days">>)
    /\ pc' = "aggregating"
    /\ UNCHANGED <<settings, db_opens, generator,
                   normVars, parseVars, boardVars, dayVars, storeVars, pipeVars,
                   retryVars, threadVars>>

NextConfig == NewStatsGenerator \/ ReadRollingWindow

SpecConfig == InitConfig /\ [][NextConfig]_vars

----------------------------------------------------------------------------
(* DataStorage: the permits table and the Parquet file, storage.py.  A row  *)
(* is its dig_ticket_number; the other columns are left out.               *)

\* Largest number of records of a DataFrame
MaxBatch == 2
\* Largest number of process_and_store calls on a store
MaxStores == 2

Tickets == {"T1", "T2", "T3"}

\* The DataFrames handed to process_and_store: any tickets, in any order
Batches == UNION {[1..n -> Tickets] : n \in 0..MaxBatch}

Range(seq) == {seq[i] : i \in DOMAIN seq}

\* Line 140: df[~df['dig_ticket_number'].isin(existing_tickets)]
RECURSIVE new_records(_, _)
new_records(rows, df) ==
    IF df = <<>> THEN <<>>
    ELSE IF Head(df) \in Range(rows) THEN new_records(rows, Tail(df))
    ELSE <<Head(df)>> \o new_records(rows, Tail(df))

\* Line 141: df[df['dig_ticket_number'].isin(existing_tickets)]
RECURSIVE existing_records(_, _)
existing_records(rows, df) ==
    IF df = <<>> THEN <<>>
    ELSE IF Head(df) \in Range(rows)
         THEN <<Head(df)>> \o existing_records(rows, Tail(df))
         ELSE existing_records(rows, Tail(df))

\* Lines 159-166 under PRIMARY KEY (line 35): the rows are inserted one by one,
\* and a ticket the table holds already raises ConstraintException
RECURSIVE executemany(_, _)
executemany(rows, records) ==
    IF records = <<>> THEN [raised |-> FALSE, table |-> rows]
    ELSE IF Head(records) \in Range(rows) THEN [raised |-> TRUE, table |-> rows]
    ELSE executemany(Append(rows, Head(records)), Tail(records))

\* Lines 69-89: the one file is written anew, unless the DataFrame is empty
_save_to_parquet(file, df) == IF df = <<>> THEN file ELSE df

\* Lines 139-232 for the outcome of the INSERT.  The UPDATE statements change
\* no ticket number.  After a failed INSERT the table holds the rows inserted
\* before the failure, or none of them when the statement is undone as a whole.
store_records(rows, file, df, inserted) ==
    IF inserted.raised
    THEN {[stats |-> [raised |-> TRUE, total_records |-> 0,
                      inserts |-> 0, updates |-> 0],
           table |-> t, snapshot |-> file] : t \in {rows, inserted.table}}
    ELSE {[stats |-> [raised |-> FALSE, total_records |-> Len(df),
                      inserts |-> Len(new_records(rows, df)),
                      updates |-> Len(existing_records(rows, df))],
           table |-> inserted.table,
           snapshot |-> _save_to_parquet(file, df)]}

\* Lines 91-232: the outcomes of process_and_store
process_and_store(rows, file, df) ==
    IF df = <<>>
    THEN {[stats |-> NoStats, table |-> rows, snapshot |-> file]}
    ELSE store_records(rows, file, df,
                       executemany(rows, new_records(rows, df)))

\* Lines 25-67: a store as _init_database creates it, and no Parquet file
InitStore ==
    /\ pc = "start"
    /\ permit_rows = <<>>
    /\ snapshot = <<>>
    /\ batch = <<>>
    /\ stored = NoStats
    /\ stores = 0
    /\ NormIdle /\ ParseIdle /\ BoardIdle /\ DayIdle /\ CfgIdle /\ PipeIdle
    /\ TailIdle

\* Lines 91-232: one call of process_and_store
ProcessAndStore ==
    /\ stores < MaxStores
    /\ batch' \in Batches
    /\ \E outcome \in process_and_store(permit_rows, snapshot, batch') :
         /\ stored' = outcome.stats
         /\ permit_rows' = outcome.table
         /\ snapshot' = outcome.snapshot
    /\ stores' = stores + 1
    /\ pc' = "stored"
    /\ UNCHANGED <<normVars, parseVars, boardVars, dayVars, cfgVars, pipeVars,
                   retryVars, threadVars>>

NextStore == ProcessAndStore

SpecStore == InitStore /\ [][NextStore]_vars

----------------------------------------------------------------------------
(* run_daily_update.py: run_pipeline under retry_on_error.  One action per *)
(* step of the pipeline; the locals of an attempt start afresh.            *)

\* run_daily_update.py line 66
min_records_threshold == 10

\* error_config['retry']['max_attempts'] of the pipeline's runs
MaxAttempts == 2

\* Line 71: numbers of records a fetch returns
FetchSizes == {0, 1, min_records_threshold, min_records_threshold + 2}

\* The counts of yesterday in the snapshot after the store
YesterdayCounts ==
    {NoRow, [total_permits |-> 2, emergency_permits |-> 1],
     [total_permits |-> 100, emergency_permits |-> 10]}

\* Line 86 with storage.py lines 139-141, 168, 221: the stats of a store of
\* n records, each of them inserted or updated; a duplicate ticket raises
storage_outcomes(n) ==
    {[raised |-> FALSE, total_records |-> n, inserts |-> i, updates |-> n - i] :
        i \in {0, 1, n} \cap (0..n)}
    \cup {[raised |-> TRUE, total_records |-> 0, inserts |-> 0, updates |-> 0]}

\* Lines 96-104 with the threshold left out
validate_storage_no_threshold(stats) ==
    IF stats.inserts = 0 /\ stats.updates = 0 THEN "return" ELSE "continue"

\* Lines 96-104: what run_pipeline does with the stats of the store
validate_storage(stats) ==
    IF stats.inserts = 0 /\ stats.updates = 0 THEN "return"
    ELSE IF stats.total_records < min_records_threshold
         THEN "DataValidationError"
         ELSE "continue"

\* Lines 121-126: permit_stats of the actual counts, the percentage in tenths;
\* a total of 0 divides by zero
permit_stats_of(counts) ==
    IF counts.total_permits = 0
    THEN {[raised |-> TRUE, made |-> FALSE, emergency_percent |-> 0]}
    ELSE {[raised |-> FALSE, made |-> TRUE, emergency_percent |-> p] :
            p \in round_1(100 * counts.emergency_permits, counts.total_permits,
                          dyadic(counts.emergency_permits,
                                 counts.total_permits))}

\* Lines 110-129: the statistics step: generate_daily_stats, then the
\* comparison and permit_stats
statistics_of(counts, null) ==
    IF generate_daily_stats([d \in {0} |-> counts], 0, null).raised
    THEN {[raised |-> TRUE, made |-> FALSE, emergency_percent |-> 0,
           error |-> "StatsGenerationError"]}
    ELSE {[raised |-> s.raised, made |-> s.made,
           emergency_percent |-> s.emergency_percent,
           error |-> IF s.raised THEN "ZeroDivisionError" ELSE ""] :
            s \in permit_stats_of(counts)}

\* Lines 144-169: the posting step
post_step(status, mode, board) ==
    IF status.fetch_success /\ status.storage_success /\ status.stats_success
    THEN IF mode THEN [thread |-> "none", error |-> ""]
         ELSE [thread |-> read_overall(board),
               error |-> IF read_overall(board) = "formatted" THEN ""
                         ELSE read_overall(board)]
    ELSE [thread |-> "none", error |-> "DataValidationError"]

InitPipeline ==
    /\ pc = "start"
    /\ attempt = 0
    /\ test_mode \in BOOLEAN
    /\ yesterday_counts \in YesterdayCounts
    /\ FreshAttempt
    /\ NormIdle /\ ParseIdle /\ BoardIdle /\ DayIdle /\ CfgIdle /\ StoreIdle
    /\ TailIdle

PipeRest ==
    <<normVars, parseVars, boardVars, dayVars, cfgVars, storeVars,
      retryVars, threadVars>>

\* Lines 53-66: the components are built; a constructor may raise
InitializeComponents ==
    /\ pc = "start"
    /\ \/ pc' = "initialized" /\ error' = ""
       \/ pc' = "failed" /\ error' = "StatsGenerationError"
    /\ UNCHANGED <<attempt, test_mode, yesterday_counts, records_fetched,
                   storage_stats, pipeline_status, permit_stats, heatmap,
                   thread, PipeRest>>

\* Lines 69-82: fetch_recent_data and the validation of its result
FetchRecentData ==
    /\ pc = "initialized"
    /\ \E n \in FetchSizes, has_ticket_column \in BOOLEAN :
         /\ records_fetched' = n
         /\ IF n = 0
            THEN pc' = "returned" /\ UNCHANGED <<pipeline_status, error>>
            ELSE IF ~has_ticket_column
                 THEN /\ pc' = "failed"
                      /\ error' = "DataValidationError"
                      /\ UNCHANGED pipeline_status
                 ELSE /\ pc' = "fetched"
                      /\ pipeline_status' =
                             [pipeline_status EXCEPT !.fetch_success = TRUE]
                      /\ UNCHANGED error
    /\ UNCHANGED <<attempt, test_mode, yesterday_counts, storage_stats,
                   permit_stats, heatmap, thread, PipeRest>>

\* Lines 84-106: process_and_store and the validation of its stats
ProcessAndStoreData ==
    /\ pc = "fetched"
    /\ storage_stats' \in storage_outcomes(records_fetched)
    /\ IF storage_stats'.raised
       THEN /\ pc' = "failed" /\ error' = "ConstraintException"
            /\ UNCHANGED pipeline_status
       ELSE IF validate_storage(storage_stats') = "return"
            THEN pc' = "returned" /\ UNCHANGED <<pipeline_status, error>>
            ELSE IF validate_storage(storage_stats') = "continue"
                 THEN /\ pc' = "stored"
                      /\ pipeline_status' =
                             [pipeline_status EXCEPT !.storage_success = TRUE]
                      /\ UNCHANGED error
                 ELSE /\ pc' = "failed"
                      /\ error' = validate_storage(storage_stats')
                      /\ UNCHANGED pipeline_status
    /\ UNCHANGED <<attempt, test_mode, yesterday_counts, records_fetched,
                   permit_stats, heatmap, thread, PipeRest>>

\* Lines 108-129: the statistics of yesterday
GenerateStatistics ==
    /\ pc = "stored"
    /\ \E null \in NullValues :
       \E s \in statistics_of(yesterday_counts, null) :
         /\ permit_stats' =
                [made |-> s.made, emergency_percent |-> s.emergency_percent]
         /\ error' = s.error
         /\ IF s.raised
            THEN pc' = "failed" /\ UNCHANGED pipeline_status
            ELSE /\ pc' = "computed"
                 /\ pipeline_status' =
                        [pipeline_status EXCEPT !.stats_success = TRUE]
    /\ UNCHANGED <<attempt, test_mode, yesterday_counts, records_fetched,
                   storage_stats, heatmap, thread, PipeRest>>

\* Lines 131-141: the emergency heatmap; the chart may fail
CreateHeatmap ==
    /\ pc = "computed"
    /\ \/ pc' = "charted" /\ heatmap' = TRUE /\ error' = ""
       \/ pc' = "failed" /\ heatmap' = FALSE /\ error' = "ChartError"
    /\ UNCHANGED <<attempt, test_mode, yesterday_counts, records_fetched,
                   storage_stats, pipeline_status, permit_stats, thread,
                   PipeRest>>

\* Lines 143-169: post_daily_thread with the list get_contractor_leaderboard
\* returned (line 118), unless test_mode
PostToBluesky ==
    /\ pc = "charted"
    /\ \E rows \in {<<>>} :
         LET step == post_step(pipeline_status, test_mode,
                               get_contractor_leaderboard(rows, 5))
         IN  /\ thread' = step.thread
             /\ error' = step.error
             /\ pc' = IF step.error = "" THEN "returned" ELSE "failed"
    /\ UNCHANGED <<attempt, test_mode, yesterday_counts, records_fetched,
                   storage_stats, pipeline_status, permit_stats, heatmap,
                   PipeRest>>

\* Lines 26-40 around run_pipeline: the last attempt's exception is raised,
\* an earlier one is followed by a new attempt
RetryPipeline ==
    /\ pc = "failed"
    /\ IF attempt + 1 = MaxAttempts
       THEN /\ pc' = "raised"
            /\ UNCHANGED <<attempt, records_fetched, storage_stats,
                           pipeline_status, permit_stats, heatmap, thread,
                           error>>
       ELSE /\ pc' = "start"
            /\ attempt' = attempt + 1
            /\ records_fetched' = 0 /\ storage_stats' = NoStats
            /\ pipeline_status' = NoStatus /\ permit_stats' = NoPermitStats
            /\ heatmap' = FALSE /\ thread' = "none" /\ error' = ""
    /\ UNCHANGED <<test_mode, yesterday_counts, PipeRest>>

NextPipeline ==
    \/ InitializeComponents
    \/ FetchRecentData
    \/ ProcessAndStoreData
    \/ GenerateStatistics
    \/ CreateHeatmap
    \/ PostToBluesky
    \/ RetryPipeline

SpecPipeline == InitPipeline /\ [][NextPipeline]_vars

----------------------------------------------------------------------------
(* retry_on_error of run_daily_update.py and refresh_data.py, which are    *)
(* the same code, around a function that succeeds or raises.               *)

\* Largest max_attempts of the configurations
MaxRetries == 4

\* Lines 21-23: the retry settings, which the code takes as they are
RetryAttempts == 0..MaxRetries
RetryDelays == {1, 2, 5}

\* Line 29: the delay after the failure of attempt k
current_delay(delay, k, backoff) == delay * (IF backoff THEN 2 ^ k ELSE 1)

RetryRest ==
    <<normVars, parseVars, boardVars, dayVars, cfgVars, storeVars, threadVars,
      test_mode, yesterday_counts, records_fetched, storage_stats,
      pipeline_status, permit_stats, heatmap, thread, error>>

InitRetry ==
    /\ pc = "calling"
    /\ max_attempts \in RetryAttempts
    /\ delay_seconds \in RetryDelays
    /\ exponential \in BOOLEAN
    /\ func_calls = 0 /\ sleeps = <<>> /\ returned = ""
    /\ NormIdle /\ ParseIdle /\ BoardIdle /\ DayIdle /\ CfgIdle /\ StoreIdle
    /\ PipeIdle /\ ThreadIdle

\* Lines 25-27: an attempt of range(max_attempts) whose call returns
CallReturns ==
    /\ pc = "calling"
    /\ attempt < max_attempts
    /\ func_calls' = func_calls + 1
    /\ returned' = "result"
    /\ pc' = "returned"
    /\ UNCHANGED <<attempt, max_attempts, delay_seconds, exponential, sleeps,
                   RetryRest>>

\* Lines 25-40: an attempt whose call raises: the last one raises again, an
\* earlier one sleeps
CallRaises ==
    /\ pc = "calling"
    /\ attempt < max_attempts
    /\ func_calls' = func_calls + 1
    /\ IF attempt + 1 = max_attempts
       THEN /\ returned' = "exception"
            /\ pc' = "raised"
            /\ UNCHANGED <<attempt, sleeps>>
       ELSE /\ sleeps' =
                   Append(sleeps,
                          current_delay(delay_seconds, attempt, exponential))
            /\ attempt' = attempt + 1
            /\ UNCHANGED <<returned, pc>>
    /\ UNCHANGED <<max_attempts, delay_seconds, exponential, RetryRest>>

\* Lines 25, 41: range(max_attempts) is used up without a return or a raise,
\* which an empty range is at once; the wrapper falls off its end
RangeExhausted ==
    /\ pc = "calling"
    /\ attempt >= max_attempts
    /\ returned' = "None"
    /\ pc' = "returned"
    /\ UNCHANGED <<attempt, max_attempts, delay_seconds, exponential,
                   func_calls, sleeps, RetryRest>>

NextRetry == CallReturns \/ CallRaises \/ RangeExhausted

SpecRetry == InitRetry /\ [][NextRetry]_vars

----------------------------------------------------------------------------
(* bluesky.py: post_thread on its publishing path (TEST_MODE unset).  A    *)
(* post of the list is the pair of whether it has link_text and link_url   *)
(* and whether it has an image; a published record carries the index of    *)
(* its post and the indices its reply references point to, -1 for none.    *)

\* Longest list of posts
MaxPosts == 3

PostKinds == [link : BOOLEAN, image : BOOLEAN]

RECURSIVE ListsUpTo(_)
ListsUpTo(n) ==
    IF n = 0 THEN {<<>>}
    ELSE ListsUpTo(n - 1) \cup [1..n -> PostKinds]

\* Lines 134-198: _create_post_with_link takes five arguments after self, so
\* the call of lines 265-272 with reply_ref as a sixth is a TypeError; the
\* call of lines 233-239 creates a record without reply and returns None
create_post_with_link(item, k, with_reply) ==
    IF with_reply
    THEN {[sent |-> FALSE, record |-> "none", error |-> "TypeError",
           entry |-> [post |-> k, root |-> -1, parent |-> -1]]}
    ELSE {[sent |-> FALSE, record |-> "none", error |-> "BlueskyPostError",
           entry |-> [post |-> k, root |-> -1, parent |-> -1]],
          [sent |-> TRUE, record |-> "None", error |-> "",
           entry |-> [post |-> k, root |-> -1, parent |-> -1]]}

\* Lines 241-249, 274-288: send_post, after the upload of the image if any;
\* the upload or the request may fail
send_post(item, k, root, parent) ==
    {[sent |-> FALSE, record |-> "none", error |-> "RequestError",
      entry |-> [post |-> k, root |-> root, parent |-> parent]],
     [sent |-> TRUE, record |-> "record", error |-> "",
      entry |-> [post |-> k, root |-> root, parent |-> parent]]}

\* Lines 232-249, 264-288: the ways one post of the list goes out
post_outcomes(item, k, with_reply, root, parent) ==
    IF item.link THEN create_post_with_link(item, k, with_reply)
    ELSE send_post(item, k, root, parent)

\* Lines 251-254, 290-294: reading record.uri of what the call returned
ref_error(o) ==
    IF o.error # "" THEN o.error
    ELSE IF o.record = "None" THEN "AttributeError" ELSE ""

ThreadRest ==
    <<normVars, parseVars, boardVars, dayVars, cfgVars, storeVars, pipeVars,
      retryVars>>

InitThread ==
    /\ pc = "start"
    /\ posts \in ListsUpTo(MaxPosts)
    /\ published = <<>> /\ position = 0
    /\ root_ref = -1 /\ parent_ref = -1 /\ thread_error = ""
    /\ NormIdle /\ ParseIdle /\ BoardIdle /\ DayIdle /\ CfgIdle /\ StoreIdle
    /\ PipeIdle /\ RetryIdle

\* Lines 214-216: an empty list returns at once
ReturnEmpty ==
    /\ pc = "start"
    /\ posts = <<>>
    /\ pc' = "returned"
    /\ UNCHANGED <<threadVars, ThreadRest>>

\* Lines 231-255: the first post and the references to it
PostFirst ==
    /\ pc = "start"
    /\ posts # <<>>
    /\ \E o \in post_outcomes(posts[1], 0, FALSE, -1, -1) :
         /\ published' = IF o.sent THEN Append(published, o.entry)
                         ELSE published
         /\ thread_error' = ref_error(o)
         /\ IF ref_error(o) = ""
            THEN /\ root_ref' = 0 /\ parent_ref' = 0 /\ position' = 1
                 /\ pc' = "replying"
            ELSE /\ pc' = "raised"
                 /\ UNCHANGED <<root_ref, parent_ref, position>>
    /\ UNCHANGED <<posts, ThreadRest>>

\* Lines 258-294: one later post, as a reply to root_ref and parent_ref
PostReply ==
    /\ pc = "replying"
    /\ position < Len(posts)
    /\ \E o \in post_outcomes(posts[position + 1], position, TRUE,
                              root_ref, parent_ref) :
         /\ published' = IF o.sent THEN Append(published, o.entry)
                         ELSE published
         /\ thread_error' = ref_error(o)
         /\ IF ref_error(o) = ""
            THEN /\ parent_ref' = position /\ position' = position + 1
                 /\ UNCHANGED pc
            ELSE /\ pc' = "raised"
                 /\ UNCHANGED <<parent_ref, position>>
    /\ UNCHANGED <<posts, root_ref, ThreadRest>>

\* Line 296: the loop is over
ThreadPosted ==
    /\ pc = "replying"
    /\ position = Len(posts)
    /\ pc' = "posted"
    /\ UNCHANGED <<threadVars, ThreadRest>>

NextThread == ReturnEmpty \/ PostFirst \/ PostReply \/ ThreadPosted

SpecThread == InitThread /\ [][NextThread]_vars

----------------------------------------------------------------------------
(* Properties of _normalize_name.                                          *)

\* C1: for every string s, _normalize_name(_normalize_name(s)) = _normalize_name(s):
\* a second run of the normalizer, on the output of the first, returns its
\* argument unchanged.
C1_Idempotent == calls >= 2 => out = name

\* C3: for every key of NAME_MAPPINGS and every variant of it in letter case or
\* in its runs of hyphens and spaces, _normalize_name returns exactly the
\* canonical value mapped to the key.
C3_AliasTotality ==
    (calls = 1 /\ origin.key > 0 /\ origin.decoration = "")
        => out = NAME_MAPPINGS[origin.key][2]

\* C9: for every non-empty input string the result of _normalize_name is a
\* non-empty string.
C9_NonEmptyResult == (calls >= 1 /\ name # "") => out # ""

\* Whether the whole of t is one preserved parenthetical
IsPreservedSuffix(t) ==
    \E k \in 1..Len(PRESERVE_SUFFIXES) : t # "" /\ MatchLen(PRESERVE_SUFFIXES[k], t) = Len(t)

\* s without its trailing preserved parenthetical, when it ends with one
WithoutPreservedSuffix(s) ==
    LET cuts == {i \in 1..Len(s) : IsPreservedSuffix(Drop(s, i - 1))}
    IN  IF cuts = {} THEN s ELSE Take(s, (CHOOSE i \in cuts : TRUE) - 1)

\* Whether s holds an opening parenthesis with a closing one after it
HasParenthetical(s) ==
    \E i \in 1..Len(s) : \E j \in (i + 1)..Len(s) : CharAt(s, i) = "(" /\ CharAt(s, j) = ")"

\* C10: the output of _normalize_name holds no parenthesized group other than
\* the single preserved suffix: no marker of the remove list, and no other
\* parenthetical content, empty or nested parentheses included.
C10_NoParenthetical == calls >= 1 => ~HasParenthetical(WithoutPreservedSuffix(out))

----------------------------------------------------------------------------
(* Properties of _parse_record.                                            *)

\* Whether the pieces make a parenthesized or brace-delimited (name, count) pair
WellFormed(e) ==
    /\ <<e.opening, e.closing>> \in {<<"(", ")">>, <<"{'': ", "}">>}
    /\ e.separator \in {", ", ", '': "}
    /\ e.count # "" /\ CharsOf(e.count) \subseteq DigitSet
    /\ e.name # ""

HasComma(s) == "," \in CharsOf(s)

\* Whether the returned dict is {name: n, count: c}
Returned(n, c) ==
    /\ ~parsed.raised
    /\ DOMAIN parsed.value = {"name", "count"}
    /\ parsed.value.name = n
    /\ parsed.value.count = c

\* C4: _parse_record of a parenthesized or brace-delimited (name, count) pair
\* whose name is wrapped in quotes and carries trailing asterisks returns the
\* normalized bare name, without quotes or asterisks, and the integer count.
C4_QuotedStarredName ==
    (/\ pc = "parsed" /\ WellFormed(encoded) /\ ~HasComma(encoded.name)
     /\ encoded.quote # "" /\ encoded.stars # "")
        => Returned(_normalize_name(encoded.name), int(encoded.count))

\* C5: _parse_record of a pair whose name holds commas returns the last integer
\* as the count and the normalized text before it as the name; the result is
\* not empty.
C5_CommaInName ==
    (/\ pc = "parsed" /\ WellFormed(encoded) /\ HasComma(encoded.name)
     /\ encoded.quote = "")
        => Returned(_normalize_name(encoded.name), int(encoded.count))

\* Whether s holds an integer token right before a closing delimiter
HasCountToken(s) ==
    \E i \in 1..(Len(s) - 1) : CharAt(s, i) \in DigitSet /\ CharAt(s, i + 1) \in {")", "}"}

\* Whether v is not a string, is empty, or holds no count
Malformed(v) == v.type # "str" \/ v.value = "" \/ ~HasCountToken(v.value)

\* What C6 says of a finished call: nothing was raised, the result is {} or has
\* exactly the keys name and count with count a non-negative integer, and it is
\* {} for a malformed input
QuietResult ==
    /\ ~parsed.raised
    /\ \/ DOMAIN parsed.value = {}
       \/ DOMAIN parsed.value = {"name", "count"} /\ parsed.value.count \in Nat
    /\ Malformed(record) => DOMAIN parsed.value = {}

\* C6: _parse_record never raises; for every input, those of a non-string type
\* included, it returns {} when the input is empty or malformed or has no
\* trailing integer, and otherwise exactly the keys name and count, count a
\* non-negative integer.
C6_NeverRaises == pc = "parsed" => QuietResult

\* C6, amended: the same for every input that has a truth value (a string,
\* None, a number, bytes, a list or a dict); a value whose truth test raises is
\* left out.
C6_NeverRaisesGivenTruthValue ==
    (pc = "parsed" /\ ~truth_raises(record)) => QuietResult

\* A value that is not a string and is not falsy went through the call
C6_Witness ==
    /\ pc = "parsed"
    /\ record.type = "bytes" /\ record.value # ""
    /\ ~parsed.raised /\ DOMAIN parsed.value = {}

----------------------------------------------------------------------------
(* Properties of get_contractor_leaderboard.                               *)

\* Yesterday's rows whose contractor name normalizes to n
RowsOf(n) ==
    SumOver(permits, {c \in DOMAIN permits :
                        kept(Contacts[c]) /\ _normalize_name(contractor_name(Contacts[c])) = n})

\* C2: the leaderboard is grouped by normalized name: no two entries carry the
\* same name, and an entry's count is the sum of the counts of all raw names
\* that normalize to its name.
C2_MergedByCanonicalName ==
    pc = "ranked" =>
        LET items == leaderboard.items
        IN  /\ \A i, j \in DOMAIN items : items[i].name = items[j].name => i = j
            /\ \A i \in DOMAIN items : items[i].count = RowsOf(items[i].name)

\* C7: get_contractor_leaderboard returns the three leaderboards overall,
\* emergency and streets, so that its callers can read result['overall'].
C7_ThreeLeaderboards ==
    /\ pc = "ranked" => leaderboard.type = "dict"
    /\ pc = "posted" => post = "formatted"

----------------------------------------------------------------------------
(* Properties of the preserved parenthetical.                              *)

\* Whether s ends with t
EndsWith(s, t) == Len(t) <= Len(s) /\ Drop(s, Len(s) - Len(t)) = t

\* The patterns of PRESERVE_SUFFIXES that match somewhere in w
PreservingPatterns(w) ==
    {k \in 1..Len(PRESERVE_SUFFIXES) :
       \E i \in 1..Len(w) : MatchLen(PRESERVE_SUFFIXES[k], Drop(w, i - 1)) > 0}

\* Where the first pattern in list order that matches in w matches leftmost
FirstPreservedAt(w) ==
    LET k == CHOOSE x \in PreservingPatterns(w) : \A y \in PreservingPatterns(w) : x <= y
        at == {i \in 1..Len(w) : MatchLen(PRESERVE_SUFFIXES[k], Drop(w, i - 1)) > 0}
        i == CHOOSE x \in at : \A y \in at : x <= y
    IN  [start |-> i, len |-> MatchLen(PRESERVE_SUFFIXES[k], Drop(w, i - 1))]

\* The text of s at a match m
TextAt(s, m) == SubSeq(s, m.start, m.start + m.len - 1)

\* Whether nothing of `result` before its last n characters matches a preserve
\* pattern
OnePreserved(result, n) == PreservingPatterns(Take(result, Len(result) - n)) = {}

\* C11: if the input holds a parenthetical matching a preserve pattern, the
\* output ends with a single space followed by that parenthetical as it stands
\* in the input, taken from the first pattern in list order that matches, and
\* no other preserved parenthetical is kept.
C11_PreservedVerbatim ==
    (calls >= 1 /\ PreservingPatterns(upper(name)) # {}) =>
        /\ EndsWith(out, " " \o TextAt(name, FirstPreservedAt(upper(name))))
        /\ OnePreserved(out, FirstPreservedAt(upper(name)).len)

\* The preserved parenthetical of the input once it is upper-cased and its
\* asterisks are removed
PreservedOf(s) == TextAt(clean_markers(s), FirstPreservedAt(clean_markers(s)))

\* C11, amended: the parenthetical is taken from the input upper-cased and
\* without its asterisks, and the output is that parenthetical alone or ends
\* with a single space followed by it; no other preserved parenthetical is kept.
C11_PreservedSuffixKept ==
    (calls >= 1 /\ PreservingPatterns(clean_markers(name)) # {}) =>
        /\ out = PreservedOf(name) \/ EndsWith(out, " " \o PreservedOf(name))
        /\ OnePreserved(out, Len(PreservedOf(name)))

\* A name with two parentheticals of different preserve patterns was normalized
C11_Witness ==
    /\ calls = 1
    /\ Cardinality(PreservingPatterns(clean_markers(name))) >= 2
    /\ EndsWith(out, " (SL-7)")

\* The decorations that are a space and a preserved parenthetical
PreservedDecorations == {d \in Decorations : Len(d) > 1 /\ IsPreservedSuffix(Drop(d, 1))}

\* C12: when the input is an alias key followed by a space and a preserved
\* parenthetical, the alias lookup still hits: the output is the key's canonical
\* value followed by a single space and that parenthetical.
C12_AliasWithPreservedSuffix ==
    (/\ calls = 1 /\ origin.key > 0 /\ origin.decoration \in PreservedDecorations
     /\ raw = NAME_MAPPINGS[origin.key][1] \o origin.decoration)
        => out = NAME_MAPPINGS[origin.key][2] \o origin.decoration

----------------------------------------------------------------------------
(* Properties of the business suffix.                                      *)

\* The suffix variants C13 names, each with the casing it is rendered in
SuffixVariants ==
    " INC" :> "Inc" @@ " INC." :> "Inc" @@ ", INC" :> "Inc" @@ " INCORPORATED" :> "Inc"
    @@ " LLC" :> "LLC" @@ " CO" :> "Co" @@ " CO." :> "Co" @@ " COMPANY" :> "Co"
    @@ " CORP" :> "Corp" @@ " CORPORATION" :> "Corp" @@ " LTD" :> "Ltd"

\* The parentheticals that follow the suffix, each with what is kept of it
KeptParenthetical ==
    "" :> "" @@ " (SL-12)" :> " (SL-12)" @@ " (SL)" :> " (SL)" @@ " (SEAL)" :> " (SEAL)"
    @@ " (OVERSIZE)" :> " (OVERSIZE)" @@ " (HOMEOWNER)" :> "" @@ " (LOT OWNER)" :> ""
    @@ " (X)" :> ""

\* C13: a name that ends, asterisks and parentheticals set aside, with a variant
\* of a business suffix is rendered as the formatted name words, the suffix in
\* its one fixed casing, and then the preserved parenthetical if there is one;
\* so all variants of a suffix on the same base name give the same output.
C13_SuffixFixedCasing ==
    calls = 1 =>
        \A b \in BaseNames : startswith(raw, b) =>
            \A e \in DOMAIN SuffixVariants : StartsWithAt(raw, Len(b) + 1, e) =>
                \A q \in DOMAIN KeptParenthetical, t \in StarRuns :
                    raw = b \o e \o q \o t =>
                        out = _normalize_name(b) \o " " \o SuffixVariants[e]
                                \o KeptParenthetical[q]

\* The last whitespace-delimited token of s, "" when there is none
LastToken(s) == IF split(s) = <<>> THEN "" ELSE split(s)[Len(split(s))]

\* The tokens a business suffix is rendered as, and the tokens that are a variant
\* of one
SuffixTokens == {"Inc", "LLC", "Co", "Corp", "Ltd"}
SuffixVariantTokens ==
    {"INC", "INC.", "INCORPORATED", "INCORPORATED.", "LLC", "LLC.", "CO", "CO.", "COMPANY",
     "COMPANY.", "CORP", "CORP.", "CORPORATION", "CORPORATION.", "LTD", "LTD."}

\* C14: the normalizer never invents a business suffix: the output of a name
\* without parentheticals ends with a separate suffix token only if the last
\* token of the cleaned input is itself a suffix variant; a longer word that
\* merely ends with the letters of a suffix is not split.
C14_NoInventedSuffix ==
    (/\ calls = 1 /\ origin.key = 0 /\ "(" \notin CharsOf(raw)
     /\ LastToken(out) \in SuffixTokens)
        => LastToken(clean_markers(raw)) \in SuffixVariantTokens

----------------------------------------------------------------------------
(* Properties of the cleaning steps.                                       *)

\* The decorations that are a run of asterisks, with or without a space before
StarDecorations == {d \in Decorations : d # "" /\ CharsOf(d) \subseteq {" ", "*"}}

\* C15: for every name s, s followed by one asterisk or by two normalizes to
\* what s normalizes to; an alias key followed by a run of asterisks, with or
\* without a space before it, normalizes to what the bare key normalizes to.
C15_MarkerInvariance ==
    calls = 1 =>
        /\ _normalize_name(raw \o "*") = out
        /\ _normalize_name(raw \o "**") = out
        /\ (/\ origin.key > 0 /\ origin.decoration \in StarDecorations
            /\ raw = NAME_MAPPINGS[origin.key][1] \o origin.decoration)
              => out = _normalize_name(NAME_MAPPINGS[origin.key][1])

\* An alias key followed by a space and two asterisks gave the canonical value
C15_Witness ==
    /\ calls = 1
    /\ origin.key > 0 /\ origin.decoration = " **"
    /\ raw = NAME_MAPPINGS[origin.key][1] \o origin.decoration
    /\ out = NAME_MAPPINGS[origin.key][2]

\* The name parts joined by a conjunction
LeftParts == FirstWords \ {""}
RightParts == SecondWords \ {"", "*"}

\* C16: the three spellings of a conjunction are equivalent: for name parts a
\* and b, "a AND b", "a&b" and "a & b" normalize to the same output.
C16_ConjunctionSpellings ==
    calls = 1 =>
        \A a \in LeftParts : startswith(raw, a \o " AND ") =>
            \A b \in RightParts : raw = a \o " AND " \o b =>
                /\ out = _normalize_name(a \o "&" \o b)
                /\ out = _normalize_name(a \o " & " \o b)

\* Whether two whitespace characters stand next to each other in s
AdjacentWhitespace(s) ==
    \E i \in 1..(Len(s) - 1) : CharAt(s, i) \in SpaceSet /\ CharAt(s, i + 1) \in SpaceSet

\* C17: the output of _normalize_name has no leading or trailing whitespace and
\* no two adjacent whitespace characters, on every return path.
C17_WhitespaceNormalized ==
    calls >= 1 =>
        /\ out = "" \/ (CharAt(out, 1) \notin SpaceSet /\ CharAt(out, Len(out)) \notin SpaceSet)
        /\ ~AdjacentWhitespace(out)

\* A name whose preserved parenthetical leaves two adjacent spaces behind went
\* through the rule path
C17_Witness ==
    /\ calls = 1 /\ origin.key = 0
    /\ AdjacentWhitespace(extract_preserved(upper(name), 1).name)
    /\ EndsWith(out, " (SL)")
    /\ Len(out) > Len(" (SL)")

----------------------------------------------------------------------------
(* Properties of the capitalization.                                       *)

\* What the rules (a) to (e) of C18 make of a first token and of a later token:
\* A and ABC by (a), MCDONALD by (b), OF by (c) as the first token, SEVEN-D by
\* (d), SMITH by (e); B, MC and A-B by (a), DBA and AND by (c), SONS by (e)
FirstCased ==
    "A" :> "A" @@ "ABC" :> "ABC" @@ "SMITH" :> "Smith" @@ "Smith" :> "Smith"
    @@ "MCDONALD" :> "McDonald" @@ "OF" :> "Of" @@ "SEVEN-D" :> "Seven-D"
LaterCased ==
    "B" :> "B" @@ "SONS" :> "Sons" @@ "MC" :> "MC" @@ "DBA" :> "dba" @@ "AND" :> "and"
    @@ "a-b" :> "A-B"

\* The whitespace between two tokens
TokenGaps == {j \in Joiners : j # "" /\ CharsOf(j) \subseteq SpaceSet}

\* C18: on the rule path every token is cased by the first rule that applies,
\* in the order (a) short all-upper-case token unchanged, (b) MC prefix,
\* (c) connector table, the first token capitalized, (d) hyphen segments
\* capitalized, (e) first letter upper-case and the rest lower-case.
C18_CapitalizationPriority ==
    calls = 1 =>
        \A a \in DOMAIN FirstCased :
            /\ raw = a => out = FirstCased[a]
            /\ startswith(raw, a) =>
                  \A j \in TokenGaps, b \in DOMAIN LaterCased :
                      raw = a \o j \o b => out = FirstCased[a] \o " " \o LaterCased[b]

\* A name of an MC token after a first token was cased: rule (a) before rule (b)
C18_Witness ==
    /\ calls = 1
    /\ \E a \in DOMAIN FirstCased, j \in TokenGaps : raw = a \o j \o "MC"
    /\ LastToken(out) = "MC"

----------------------------------------------------------------------------
(* Properties of get_day_of_week_comparison.                               *)

\* The sum of a metric over the rows of the window; the metric's historical
\* average is this sum over the number of rows, and 0 without a row
MetricSum(metric) ==
    CASE metric = "total" -> total_sum(history)
      [] metric = "emergency" -> emergency_sum(history)
      [] metric = "regular" -> total_sum(history) - emergency_sum(history)

MetricActual(metric) ==
    CASE metric = "total" -> target.total_permits
      [] metric = "emergency" -> target.emergency_permits
      [] metric = "regular" -> target.total_permits - target.emergency_permits

ReportedDiff(metric) ==
    CASE metric = "total" -> comparison.value.total_diff_percent
      [] metric = "emergency" -> comparison.value.emergency_diff_percent
      [] metric = "regular" -> comparison.value.regular_diff_percent

ReportedAvg(metric) ==
    CASE metric = "total" -> comparison.value.avg_total
      [] metric = "emergency" -> comparison.value.avg_emergency
      [] metric = "regular" -> comparison.value.avg_regular

Metrics == {"total", "emergency", "regular"}

\* C19: a metric whose historical average is 0, the window without any date of
\* the weekday included, has a percent difference of exactly 0, and the call
\* does not raise.
C19_ZeroAverageZeroDiff ==
    pc = "compared" =>
        /\ (\E m \in Metrics : MetricSum(m) = 0) => ~comparison.raised
        /\ ~comparison.raised =>
               \A m \in Metrics : MetricSum(m) = 0 => ReportedDiff(m) = 0

\* A window whose dates have no emergency permit, compared with a date that
\* has some
C19_Witness ==
    /\ pc = "compared"
    /\ Len(history) > 0
    /\ MetricSum("emergency") = 0
    /\ MetricActual("emergency") > 0
    /\ ~comparison.raised
    /\ ReportedDiff("emergency") = 0

\* Whether tenths is a tenth nearest to num / den, den > 0
RoundedTo1(tenths, num, den) == 2 * Abs(tenths * den - 10 * num) <= den

\* C20: for a metric whose historical average is above 0, the reported percent
\* difference is (actual - avg) / avg * 100 rounded to one decimal and the
\* reported average is the mean rounded to one decimal; totals 100, 120, 110
\* with an actual total of 132 give avg_total 110.0 and total_diff_percent 20.0.
C20_RoundedToOneDecimal ==
    (pc = "compared" /\ ~comparison.raised) =>
        /\ \A m \in Metrics :
               MetricSum(m) > 0 =>
                   /\ RoundedTo1(ReportedDiff(m),
                                 100 * (MetricActual(m) * Len(history) - MetricSum(m)),
                                 MetricSum(m))
                   /\ RoundedTo1(ReportedAvg(m), MetricSum(m), Len(history))
        /\ ( /\ Len(history) = 3
             /\ \A i \in 1..3 : history[i].total_permits = <<100, 120, 110>>[i]
             /\ target.total_permits = 132 )
           => /\ comparison.value.avg_total = 1100
              /\ comparison.value.total_diff_percent = 200

\* The example of three Mondays
C20_Witness ==
    /\ pc = "compared"
    /\ Len(history) = 3
    /\ \A i \in 1..3 : history[i].total_permits = <<100, 120, 110>>[i]
    /\ target.total_permits = 132
    /\ ~comparison.raised
    /\ comparison.value.avg_total = 1100
    /\ comparison.value.total_diff_percent = 200

\* The dates d with target - W <= d < target that have the target's weekday
WindowDates ==
    {d \in (TargetDate - window)..(TargetDate - 1) :
        day_name(d) = day_name(TargetDate)}

\* The count of a metric on a date, 0 on a date without a record
CountOn(metric, d) ==
    CASE metric = "total" -> daily[d].total_permits
      [] metric = "emergency" -> daily[d].emergency_permits
      [] metric = "regular" -> daily[d].total_permits - daily[d].emergency_permits

RECURSIVE SumOn(_, _)
SumOn(metric, dates) ==
    IF dates = {}
    THEN 0
    ELSE LET d == CHOOSE e \in dates : TRUE
         IN  CountOn(metric, d) + SumOn(metric, dates \ {d})

\* C21: each reported average is the mean, to one decimal, of the per-date
\* counts over all dates d with target - W <= d < target that have the target's
\* weekday, and the target date's own counts are not part of it.
C21_MeanOverWindowDates ==
    (pc = "compared" /\ ~comparison.raised /\ WindowDates # {}) =>
        \A m \in Metrics :
            RoundedTo1(ReportedAvg(m), SumOn(m, WindowDates),
                       Cardinality(WindowDates))

\* C22: an aggregation over no matching record is no error: generate_daily_stats
\* returns total 0, emergency 0 and regular 0, get_day_of_week_comparison
\* returns zero actual counts and, without a date in the window, zero averages.
C22_ZeroRowsNoError ==
    /\ (pc = "counted" /\ daily[TargetDate] = NoRow) =>
           /\ ~daily_stats.raised
           /\ daily_stats.value =
                  [total_permits |-> 0, emergency_permits |-> 0,
                   regular_permits |-> 0]
    /\ (pc = "compared" /\ daily[TargetDate] = NoRow) =>
           /\ ~comparison.raised
           /\ comparison.value.actual_total = 0
           /\ comparison.value.actual_emergency = 0
           /\ comparison.value.actual_regular = 0
           /\ history = <<>> =>
                  \A m \in Metrics : ReportedAvg(m) = 0

----------------------------------------------------------------------------
(* Properties of the StatsGenerator constructor.                           *)

\* The rolling-window setting is absent from the configuration, or null
WindowAbsent ==
    _get_nested(settings, <<"analytics", "stats", "rolling_window_days">>) = None

----------------------------------------------------------------------------
(* Properties of the list get_contractor_leaderboard returns.              *)

\* Whether entry k of the list is the row at position i of the rows received
EntryOfRow(k, i) ==
    /\ leaderboard.items[k].count = received[i].permit_count
    /\ leaderboard.items[k].name = _normalize_name(received[i].contractor_name)

\* C24: the list of get_contractor_leaderboard(N) has at most N entries, every
\* name is non-empty, the counts do not increase, and entries of equal count
\* stand in the order in which their rows were received.
C24_BoundedOrderedStable ==
    (pc = "ranked" /\ ~leaderboard.raised) =>
        /\ Len(leaderboard.items) <= limit
        /\ \A k \in DOMAIN leaderboard.items : leaderboard.items[k].name # ""
        /\ \A k, l \in DOMAIN leaderboard.items :
               k < l => leaderboard.items[k].count >= leaderboard.items[l].count
        /\ \E row \in [DOMAIN leaderboard.items -> DOMAIN received] :
               /\ \A k \in DOMAIN leaderboard.items : EntryOfRow(k, row[k])
               /\ \A k, l \in DOMAIN leaderboard.items :
                      (k < l /\ leaderboard.items[k].count
                                    = leaderboard.items[l].count)
                          => row[k] < row[l]

\* Two rows of the same count that give different names
C24_Witness ==
    /\ pc = "ranked"
    /\ Len(leaderboard.items) = 2
    /\ leaderboard.items[1].count = leaderboard.items[2].count
    /\ leaderboard.items[1].name # leaderboard.items[2].name
    /\ EntryOfRow(1, 1)
    /\ EntryOfRow(2, 2)

----------------------------------------------------------------------------
(* Properties of the store.                                                *)

\* C25: after a process_and_store call on a non-empty batch the Parquet
\* snapshot holds every permit of the permits table, and the two hold the same
\* set of ticket numbers.
C25_SnapshotHoldsTable ==
    (stores > 0 /\ batch # <<>> /\ ~stored.raised) =>
        Range(snapshot) = Range(permit_rows)

\* The records of a DataFrame whose ticket number the rows hold, or do not hold
RecordsPresent(df, rows) == {i \in DOMAIN df : df[i] \in Range(rows)}
RecordsAbsent(df, rows) == {i \in DOMAIN df : df[i] \notin Range(rows)}

\* C30: every ticket number occurs at most once in the permits table; each call
\* reports inserts = the number of batch records whose ticket number was absent
\* before the call and updates = the number whose ticket number was present;
\* storing the same batch again reports inserts = 0 and leaves the set of
\* stored ticket numbers unchanged.
C30_UniqueTicketsExactCounts ==
    [][ /\ \A i, j \in DOMAIN permit_rows' :
               permit_rows'[i] = permit_rows'[j] => i = j
        /\ ~stored'.raised
        /\ stored'.inserts = Cardinality(RecordsAbsent(batch', permit_rows))
        /\ stored'.updates = Cardinality(RecordsPresent(batch', permit_rows))
        /\ (stores > 0 /\ ~stored.raised /\ batch' = batch) =>
               /\ stored'.inserts = 0
               /\ Range(permit_rows') = Range(permit_rows) ]_vars


----------------------------------------------------------------------------
(* Properties of run_pipeline.                                             *)

\* What must have happened in the attempt that calls post_daily_thread
PostingPreconditions ==
    /\ records_fetched >= 1
    /\ ~storage_stats.raised
    /\ storage_stats.inserts + storage_stats.updates >= 1
    /\ storage_stats.total_records >= min_records_threshold
    /\ permit_stats.made
    /\ heatmap
    /\ ~test_mode

\* C26: post_daily_thread is called only in an attempt whose fetch returned
\* at least one record, whose store reported an insert or an update and at
\* least min_records_threshold records, whose statistics and heatmap were
\* made, and with test_mode false; a fetch of no record and a store without
\* changes make the attempt return without a post and without an exception.
C26_PostOnlyAfterAllSteps ==
    [][/\ thread' # "none" => PostingPreconditions'
       /\ (pc = "initialized" /\ records_fetched' = 0)
              => (pc' = "returned" /\ thread' = "none" /\ error' = "")
       /\ (pc = "fetched" /\ ~storage_stats'.raised
              /\ storage_stats'.inserts = 0 /\ storage_stats'.updates = 0)
              => (pc' = "returned" /\ thread' = "none" /\ error' = "")]_vars

\* An attempt that called post_daily_thread after all its steps
C26_Witness ==
    /\ thread # "none"
    /\ PostingPreconditions
    /\ attempt = 1

\* C27: with no permit of yesterday the statistics step makes permit_stats
\* with an emergency percentage of 0 and raises nothing.
C27_ZeroPermitsNoFailure ==
    [][(pc = "stored" /\ yesterday_counts = NoRow)
          => /\ pc' = "computed"
             /\ permit_stats'.made
             /\ permit_stats'.emergency_percent = 0
             /\ error' = ""]_vars

----------------------------------------------------------------------------
(* Properties of retry_on_error.                                           *)

\* C28: the wrapper returns only the result of a call that succeeded; when it
\* has ended the function was called at least once and at most max_attempts
\* times; it raises after max_attempts failures, with max_attempts - 1 sleeps
\* before; the delay of retry k is delay_seconds * 2^k with exponential
\* backoff and delay_seconds without.
C28_RetryContract ==
    /\ pc = "returned" => returned = "result"
    /\ pc \in {"returned", "raised"}
          => (func_calls >= 1 /\ func_calls <= max_attempts)
    /\ pc = "raised"
          => (func_calls = max_attempts /\ Len(sleeps) = max_attempts - 1)
    /\ \A k \in DOMAIN sleeps :
          sleeps[k] = delay_seconds * (IF exponential THEN 2 ^ (k - 1) ELSE 1)

----------------------------------------------------------------------------
(* Properties of post_thread.                                              *)

\* C29: what post_thread has published are the first posts of the list in
\* order, post 0 without reply references and post k as a reply with root
\* post 0 and parent post k - 1; it raises only when the service refused a
\* post, with or without link or image, and when it ends without raising
\* every post of the list is published.
C29_ReplyChain ==
    /\ \A i \in DOMAIN published :
          /\ published[i].post = i - 1
          /\ published[i].root = (IF i = 1 THEN -1 ELSE 0)
          /\ published[i].parent = i - 2
    /\ thread_error \notin {"TypeError", "AttributeError"}
    /\ pc = "posted" => Len(published) = Len(posts)

====
